---------------------------- MODULE Spec2Model ----------------------------
(***************************************************************************)
(* hermes: the command safety classification engine.                       *)
(*                                                                         *)
(*   - package safety: SafetyLevel, Result, Analyzer (two tables of        *)
(*     compiled regular expressions), AnalyzeCommand, MockAnalyzeCommand;  *)
(*   - package exit: the exit code constants and exit.Error;               *)
(*   - package commands: the generate subcommand, which asks the AI client *)
(*     for a command, classifies it, merges the two opinions               *)
(*     (upgrade only), prints the command and returns the exit code.       *)
(*                                                                         *)
(* Command strings are TLA+ strings; the regular expressions are matched   *)
(* character by character with the semantics of Go's regexp package.       *)
(***************************************************************************)
EXTENDS Integers, Sequences, FiniteSets, TLC

(***************************************************************************)
(* Bounds of the model.                                                    *)
(***************************************************************************)
\* A generated command is the concatenation of at most MaxPieces pieces.
MaxPieces == 2
\* At most MaxGoroutines goroutines call the shared Analyzer concurrently.
MaxGoroutines == 2
\* The test harness of the Analyzer constructs at most MaxAnalyzers analyzers.
MaxAnalyzers == 2

(***************************************************************************)
(* package exit: exit code constants.                                      *)
(***************************************************************************)
CodeSuccess == 0
CodeError == 1
CodeConfig == 2
CodeDangerous == 10

(***************************************************************************)
(* package safety: SafetyLevel (an int; Safe = iota, Attention).           *)
(***************************************************************************)
Safe == 0
Attention == 1

\* SafetyLevel.String
LevelString(s) ==
    CASE s = Safe -> "safe"
      [] s = Attention -> "attention"
      [] OTHER -> "unknown"

\* The mutant of ExitCode: the default branch returns the success code.
ExitCodeUnknownAsSuccess(s) ==
    CASE s = Safe -> CodeSuccess
      [] s = Attention -> CodeDangerous
      [] OTHER -> CodeSuccess

\* The mutant of ExitCode: the Attention case falls into the default branch.
ExitCodeAttentionAsError(s) ==
    CASE s = Safe -> CodeSuccess
      [] OTHER -> CodeError

\* SafetyLevel.ExitCode
ExitCode(s) ==
    CASE s = Safe -> CodeSuccess
      [] s = Attention -> CodeDangerous
      [] OTHER -> CodeError

(***************************************************************************)
(* Characters and positions.  A position p of s is a number of characters  *)
(* already consumed, 0..Len(s); the character after position p is          *)
(* At(s, p + 1).                                                           *)
(***************************************************************************)
At(s, i) == SubSeq(s, i, i)

Positions(s) == 0 .. Len(s)

\* Go regexp \w: [0-9A-Za-z_]
WordChars ==
    {"a","b","c","d","e","f","g","h","i","j","k","l","m",
     "n","o","p","q","r","s","t","u","v","w","x","y","z",
     "A","B","C","D","E","F","G","H","I","J","K","L","M",
     "N","O","P","Q","R","S","T","U","V","W","X","Y","Z",
     "0","1","2","3","4","5","6","7","8","9","_"}

\* Go regexp \s: [\t\n\f\r ]
SpaceChars == {" ", "\t", "\n", "\f", "\r"}

IsWordAt(s, i) == i >= 1 /\ i <= Len(s) /\ At(s, i) \in WordChars

\* Go regexp \b at position p: exactly one side is a word character.
WordBoundary(s, p) == IsWordAt(s, p) # IsWordAt(s, p + 1)

(***************************************************************************)
(* Regular expression pieces.  Each takes the set P of positions reached   *)
(* so far and returns the set of positions reachable after the piece.      *)
(***************************************************************************)
\* a literal string w
Lit(s, P, w) ==
    { p + Len(w) : p \in { q \in P : q + Len(w) <= Len(s)
                                      /\ SubSeq(s, q + 1, q + Len(w)) = w } }

\* \b
Bnd(s, P) == { p \in P : WordBoundary(s, p) }

\* C* for a character class C
Star(s, P, C) ==
    { q \in Positions(s) :
        \E p \in P : p <= q /\ \A i \in (p + 1) .. q : At(s, i) \in C }

\* C+ for a character class C
Plus(s, P, C) ==
    { q \in Positions(s) :
        \E p \in P : p < q /\ \A i \in (p + 1) .. q : At(s, i) \in C }

\* .* : any characters but the newline
DotStar(s, P) ==
    { q \in Positions(s) :
        \E p \in P : p <= q /\ \A i \in (p + 1) .. q : At(s, i) # "\n" }

\* \s+ and \s*
Spaces1(s, P) == Plus(s, P, SpaceChars)
Spaces0(s, P) == Star(s, P, SpaceChars)

\* (w1|w2|...) for a set W of literal alternatives
Alt(s, P, W) == UNION { Lit(s, P, w) : w \in W }

\* $ (no multi-line flag: the end of the text)
End(s, P) == { p \in P : p = Len(s) }

\* \b and a literal string w: the positions of P where w follows are found
\* first, and the boundary is tested at them
BndLit(s, P, w) ==
    { p + Len(w) : p \in { q \in P : /\ q + Len(w) <= Len(s)
                                      /\ SubSeq(s, q + 1, q + Len(w)) = w
                                      /\ WordBoundary(s, q) } }

\* \bname\b
Word(s, P, w) == Bnd(s, BndLit(s, P, w))


(***************************************************************************)
(* package safety: the compiled patterns of NewAnalyzer.  A pattern is     *)
(* named by its source text; MatchString(pattern, s) is                    *)
(* regexp.Regexp.MatchString: an unanchored search unless the pattern      *)
(* begins with ^.                                                          *)
(***************************************************************************)
\* \bname\b somewhere in s
HasWord(s, w) == Word(s, Positions(s), w) # {}

\* ^name\b
StartsWithWord(s, w) == Bnd(s, Lit(s, {0}, w)) # {}

\* \brm\s+.*(-[rf]+|--recursive|--force).*\s+/\s*$
MatchRm(s) ==
    LET a == Spaces1(s, BndLit(s, Positions(s), "rm"))
        b == DotStar(s, a)
        c == Plus(s, Lit(s, b, "-"), {"r", "f"})
                \cup Lit(s, b, "--recursive") \cup Lit(s, b, "--force")
        d == Spaces1(s, DotStar(s, c))
        e == Spaces0(s, Lit(s, d, "/"))
    IN  End(s, e) # {}

\* \bdd\s+.*of=/dev/sd
MatchDd(s) ==
    Lit(s, DotStar(s, Spaces1(s, BndLit(s, Positions(s), "dd"))),
        "of=/dev/sd") # {}

\* \bchmod\s+777
MatchChmod(s) ==
    Lit(s, Spaces1(s, BndLit(s, Positions(s), "chmod")), "777") # {}

\* >\s*/dev/sd
MatchRedirect(s) ==
    Lit(s, Spaces0(s, Lit(s, Positions(s), ">")), "/dev/sd") # {}

\* \bcurl\s+.*\|\s*sh and \bwget\s+.*\|\s*sh
MatchPipeToShell(s, tool) ==
    LET a == DotStar(s, Spaces1(s, BndLit(s, Positions(s), tool)))
    IN  Lit(s, Spaces0(s, Lit(s, a, "|")), "sh") # {}

\* name\s+(sub1|sub2|...)\b from the positions P
MatchSubcommand(s, P, name, subs) ==
    Bnd(s, Alt(s, Spaces1(s, Lit(s, P, name)), subs)) # {}

\* \bname\s+(sub1|sub2|...)\b somewhere in s
MatchWordSubcommand(s, name, subs) ==
    Bnd(s, Alt(s, Spaces1(s, BndLit(s, Positions(s), name)), subs)) # {}

MatchString(pattern, s) ==
    CASE pattern = "\\bsudo\\b" -> HasWord(s, "sudo")
      [] pattern = "\\brm\\s+.*(-[rf]+|--recursive|--force).*\\s+/\\s*$" -> MatchRm(s)
      [] pattern = "\\bdd\\s+.*of=/dev/sd" -> MatchDd(s)
      [] pattern = "\\bmkfs\\b" -> HasWord(s, "mkfs")
      [] pattern = "\\bfdisk\\b" -> HasWord(s, "fdisk")
      [] pattern = "\\bshred\\b" -> HasWord(s, "shred")
      [] pattern = "\\bwipe\\b" -> HasWord(s, "wipe")
      [] pattern = "\\bchmod\\s+777" -> MatchChmod(s)
      [] pattern = ">\\s*/dev/sd" -> MatchRedirect(s)
      [] pattern = "\\bcurl\\s+.*\\|\\s*sh" -> MatchPipeToShell(s, "curl")
      [] pattern = "\\bwget\\s+.*\\|\\s*sh" -> MatchPipeToShell(s, "wget")
      [] pattern = "\\bsystemctl\\s+(start|stop|restart|enable|disable)\\b" ->
            MatchWordSubcommand(s, "systemctl",
                                {"start", "stop", "restart", "enable", "disable"})
      [] pattern = "\\bapt\\s+(install|remove|update|upgrade)\\b" ->
            MatchWordSubcommand(s, "apt",
                                {"install", "remove", "update", "upgrade"})
      [] pattern = "\\byum\\s+(install|remove|update)\\b" ->
            MatchWordSubcommand(s, "yum",
                                {"install", "remove", "update"})
      [] pattern = "\\bpacman\\s+-S\\b" ->
            MatchWordSubcommand(s, "pacman", {"-S"})
      [] pattern = "\\bmodprobe\\b" -> HasWord(s, "modprobe")
      [] pattern = "\\bmount\\b" -> HasWord(s, "mount")
      [] pattern = "\\bumount\\b" -> HasWord(s, "umount")
      [] pattern = "\\biptables\\b" -> HasWord(s, "iptables")
      [] pattern = "^ls\\b" -> StartsWithWord(s, "ls")
      [] pattern = "^cd\\b" -> StartsWithWord(s, "cd")
      [] pattern = "^pwd\\b" -> StartsWithWord(s, "pwd")
      [] pattern = "^echo\\b" -> StartsWithWord(s, "echo")
      [] pattern = "^cat\\b" -> StartsWithWord(s, "cat")
      [] pattern = "^head\\b" -> StartsWithWord(s, "head")
      [] pattern = "^tail\\b" -> StartsWithWord(s, "tail")
      [] pattern = "^grep\\b" -> StartsWithWord(s, "grep")
      [] pattern = "^find\\b" -> StartsWithWord(s, "find")
      [] pattern = "^git\\s+(status|log|diff|branch|show)\\b" ->
            MatchSubcommand(s, {0}, "git",
                            {"status", "log", "diff", "branch", "show"})
      [] pattern = "^ps\\b" -> StartsWithWord(s, "ps")
      [] pattern = "^which\\b" -> StartsWithWord(s, "which")
      [] pattern = "^whereis\\b" -> StartsWithWord(s, "whereis")
      [] pattern = "^man\\b" -> StartsWithWord(s, "man")
      [] pattern = "^help\\b" -> StartsWithWord(s, "help")
      [] pattern = "^systemctl\\s+status\\b" ->
            MatchSubcommand(s, {0}, "systemctl", {"status"})
      [] OTHER -> FALSE

\* Analyzer.attentionPatterns, in declaration order
AttentionPatterns ==
    << "\\bsudo\\b",
       "\\brm\\s+.*(-[rf]+|--recursive|--force).*\\s+/\\s*$",
       "\\bdd\\s+.*of=/dev/sd",
       "\\bmkfs\\b",
       "\\bfdisk\\b",
       "\\bshred\\b",
       "\\bwipe\\b",
       "\\bchmod\\s+777",
       ">\\s*/dev/sd",
       "\\bcurl\\s+.*\\|\\s*sh",
       "\\bwget\\s+.*\\|\\s*sh",
       "\\bsystemctl\\s+(start|stop|restart|enable|disable)\\b",
       "\\bapt\\s+(install|remove|update|upgrade)\\b",
       "\\byum\\s+(install|remove|update)\\b",
       "\\bpacman\\s+-S\\b",
       "\\bmodprobe\\b",
       "\\bmount\\b",
       "\\bumount\\b",
       "\\biptables\\b" >>

\* Analyzer.safePatterns, in declaration order
SafePatterns ==
    << "^ls\\b", "^cd\\b", "^pwd\\b", "^echo\\b", "^cat\\b", "^head\\b",
       "^tail\\b", "^grep\\b", "^find\\b",
       "^git\\s+(status|log|diff|branch|show)\\b",
       "^ps\\b", "^which\\b", "^whereis\\b", "^man\\b", "^help\\b",
       "^systemctl\\s+status\\b" >>

\* NewAnalyzer
NewAnalyzer ==
    [attentionPatterns |-> AttentionPatterns, safePatterns |-> SafePatterns]

\* some pattern of the table matches the command (the range loop with an
\* early return: which pattern matched first does not change the result)
AnyMatch(patterns, command) ==
    \E i \in DOMAIN patterns : MatchString(patterns[i], command)

\* the index of the first pattern of the table that matches the command (the
\* pattern the range loop returns at), 0 if none matches
FirstMatch(patterns, command) ==
    IF AnyMatch(patterns, command)
    THEN CHOOSE i \in DOMAIN patterns :
            /\ MatchString(patterns[i], command)
            /\ \A j \in 1 .. (i - 1) : ~MatchString(patterns[j], command)
    ELSE 0

\* the comments of NewAnalyzer on the attention patterns, in declaration
\* order: what kind of command each pattern is for
AttentionCategories ==
    << "Sudo commands (always need attention)",
       "rm -rf /",
       "dd to disk",
       "format filesystem",
       "disk partitioning",
       "secure delete",
       "secure delete",
       "dangerous permissions",
       "redirect to disk",
       "pipe to shell",
       "pipe to shell",
       "service management",
       "package management",
       "package management",
       "package management",
       "kernel modules",
       "mounting",
       "unmounting",
       "firewall" >>

\* the error value nil
Nil == [isNil |-> TRUE, Exit |-> FALSE, Code |-> 0, Msg |-> ""]

\* fmt.Errorf, errors.New: an error that is not an exit.Error and carries no
\* code
Errorf(format) == [isNil |-> FALSE, Exit |-> FALSE, Code |-> 0, Msg |-> format]

\* The mutant of AnalyzeCommand: the reason of an attention result is the
\* category of the first pattern that matched.
AnalyzeCommandCategoryReason(a, command) ==
    IF AnyMatch(a.attentionPatterns, command)
    THEN [result |-> [Level |-> Attention,
                      Reason |-> AttentionCategories[FirstMatch(a.attentionPatterns,
                                                                command)],
                      Layer |-> "attention-patterns"],
          err |-> Nil]
    ELSE IF AnyMatch(a.safePatterns, command)
    THEN [result |-> [Level |-> Safe,
                      Reason |-> "Command is known to be safe",
                      Layer |-> "safe-patterns"],
          err |-> Nil]
    ELSE [result |-> [Level |-> Safe,
                      Reason |-> "Command passed basic safety checks (AI analysis not yet implemented)",
                      Layer |-> "default-safe"],
          err |-> Nil]

\* The mutant of AnalyzeCommand: the safe table is consulted before the
\* attention table.
AnalyzeCommandSafeFirst(a, command) ==
    IF AnyMatch(a.safePatterns, command)
    THEN [result |-> [Level |-> Safe,
                      Reason |-> "Command is known to be safe",
                      Layer |-> "safe-patterns"],
          err |-> Nil]
    ELSE IF AnyMatch(a.attentionPatterns, command)
    THEN [result |-> [Level |-> Attention,
                      Reason |-> "Command requires user attention",
                      Layer |-> "attention-patterns"],
          err |-> Nil]
    ELSE [result |-> [Level |-> Safe,
                      Reason |-> "Command passed basic safety checks (AI analysis not yet implemented)",
                      Layer |-> "default-safe"],
          err |-> Nil]

\* The mutant of AnalyzeCommand: a command no rule matches needs attention.
AnalyzeCommandDefaultAttention(a, command) ==
    IF AnyMatch(a.attentionPatterns, command)
    THEN [result |-> [Level |-> Attention,
                      Reason |-> "Command requires user attention",
                      Layer |-> "attention-patterns"],
          err |-> Nil]
    ELSE IF AnyMatch(a.safePatterns, command)
    THEN [result |-> [Level |-> Safe,
                      Reason |-> "Command is known to be safe",
                      Layer |-> "safe-patterns"],
          err |-> Nil]
    ELSE [result |-> [Level |-> Attention,
                      Reason |-> "Command requires user attention",
                      Layer |-> "attention-patterns"],
          err |-> Nil]

\* The mutant of AnalyzeCommand: a command of white space alone is rejected
\* with an error.
AnalyzeCommandRejectsBlank(a, command) ==
    IF Spaces0(command, {0}) = Positions(command)
    THEN [result |-> [Level |-> Safe, Reason |-> "", Layer |-> ""],
          err |-> Errorf("empty command")]
    ELSE IF AnyMatch(a.attentionPatterns, command)
    THEN [result |-> [Level |-> Attention,
                      Reason |-> "Command requires user attention",
                      Layer |-> "attention-patterns"],
          err |-> Nil]
    ELSE IF AnyMatch(a.safePatterns, command)
    THEN [result |-> [Level |-> Safe,
                      Reason |-> "Command is known to be safe",
                      Layer |-> "safe-patterns"],
          err |-> Nil]
    ELSE [result |-> [Level |-> Safe,
                      Reason |-> "Command passed basic safety checks (AI analysis not yet implemented)",
                      Layer |-> "default-safe"],
          err |-> Nil]

\* The mutant of AnalyzeCommand: the result of Layer 3 carries no layer tag.
AnalyzeCommandUntagged(a, command) ==
    IF AnyMatch(a.attentionPatterns, command)
    THEN [result |-> [Level |-> Attention,
                      Reason |-> "Command requires user attention",
                      Layer |-> "attention-patterns"],
          err |-> Nil]
    ELSE IF AnyMatch(a.safePatterns, command)
    THEN [result |-> [Level |-> Safe,
                      Reason |-> "Command is known to be safe",
                      Layer |-> "safe-patterns"],
          err |-> Nil]
    ELSE [result |-> [Level |-> Safe,
                      Reason |-> "Command passed basic safety checks (AI analysis not yet implemented)",
                      Layer |-> ""],
          err |-> Nil]

\* The mutant of AnalyzerAfterAnalyze: the loop consumes the attention table
\* up to the rule that matched.
AnalyzerConsumesRules(a, command) ==
    IF AnyMatch(a.attentionPatterns, command)
    THEN [a EXCEPT !.attentionPatterns = << >>]
    ELSE a

\* The Analyzer after AnalyzeCommand: the method assigns to no field of the
\* Analyzer, the tables are only read.
AnalyzerAfterAnalyze(a, command) == a

\* Analyzer.AnalyzeCommand: the pair (Result, error) it returns
AnalyzeCommand(a, command) ==
    IF AnyMatch(a.attentionPatterns, command)
    THEN [result |-> [Level |-> Attention,
                      Reason |-> "Command requires user attention",
                      Layer |-> "attention-patterns"],
          err |-> Nil]
    ELSE IF AnyMatch(a.safePatterns, command)
    THEN [result |-> [Level |-> Safe,
                      Reason |-> "Command is known to be safe",
                      Layer |-> "safe-patterns"],
          err |-> Nil]
    ELSE [result |-> [Level |-> Safe,
                      Reason |-> "Command passed basic safety checks (AI analysis not yet implemented)",
                      Layer |-> "default-safe"],
          err |-> Nil]

\* The mutant of MockAnalyzeCommand: a code that is neither the success code
\* nor the attention code is taken as Attention.
MockAnalyzeCommandDefaultAttention(a, command, mockExitCode) ==
    CASE mockExitCode = CodeSuccess ->
            [Level |-> Safe, Reason |-> "Mock: safe command", Layer |-> "mock"]
      [] mockExitCode = CodeDangerous ->
            [Level |-> Attention, Reason |-> "Mock: requires attention", Layer |-> "mock"]
      [] OTHER ->
            [Level |-> Attention, Reason |-> "Mock: default safe", Layer |-> "mock"]

\* The mutant of MockAnalyzeCommand: a command that matches an attention
\* pattern is Attention whatever the code.
MockAnalyzeCommandReadsCommand(a, command, mockExitCode) ==
    IF AnyMatch(a.attentionPatterns, command) \/ mockExitCode = CodeDangerous
    THEN [Level |-> Attention, Reason |-> "Mock: requires attention", Layer |-> "mock"]
    ELSE IF mockExitCode = CodeSuccess
    THEN [Level |-> Safe, Reason |-> "Mock: safe command", Layer |-> "mock"]
    ELSE [Level |-> Safe, Reason |-> "Mock: default safe", Layer |-> "mock"]

\* The mutant of AnalyzerAfterMock: the mock call empties the safe table.
MockClearsSafeRules(a, command, mockExitCode) ==
    [a EXCEPT !.safePatterns = << >>]

\* The Analyzer after MockAnalyzeCommand: the method reads no field of the
\* Analyzer and assigns to none.
AnalyzerAfterMock(a, command, mockExitCode) == a

\* Analyzer.MockAnalyzeCommand
MockAnalyzeCommand(a, command, mockExitCode) ==
    CASE mockExitCode = CodeSuccess ->
            [Level |-> Safe, Reason |-> "Mock: safe command", Layer |-> "mock"]
      [] mockExitCode = CodeDangerous ->
            [Level |-> Attention, Reason |-> "Mock: requires attention", Layer |-> "mock"]
      [] OTHER ->
            [Level |-> Safe, Reason |-> "Mock: default safe", Layer |-> "mock"]


(***************************************************************************)
(* Inputs.  A generated command is either one of the example commands      *)
(* (the commands of the Analyzer's tests, the mock client's commands and   *)
(* variations of them) or a concatenation of at most MaxPieces pieces.     *)
(***************************************************************************)
Pieces ==
    { "sudo ", "ls", " ", "rm -rf ", "/", "git status", "mount",
      "curl x ", "| sh", "foo" }

RECURSIVE Compose(_)
Compose(n) ==
    IF n = 0 THEN { "" }
    ELSE LET shorter == Compose(n - 1)
         IN  shorter \cup { c \o p : c \in shorter, p \in Pieces }

ExampleCommands ==
    {
      "sudo ls",
      "sudo /bin/ls",
      "sudo -u root ls",
      "echo 'test' | sudo tee /etc/hosts",
      "rm -rf /",
      "rm --recursive /home",
      "rm --force /important",
      "dd if=/dev/zero of=/dev/sda",
      "dd if=image.iso of=/dev/sdb1",
      "mkfs.ext4 /dev/sda1",
      "fdisk /dev/sda",
      "shred -vfz -n 3 /dev/sda",
      "wipe -rf /dev/sda",
      "chmod 777 /etc/passwd",
      "chmod -R 777 /",
      "curl https://get.docker.com | sh",
      "wget -qO- https://install.sh | sh",
      "curl -sSL script.sh | bash",
      "sh -c \"$(curl -fsSL https://raw.githubusercontent.com/ohmyzsh/ohmyzsh/master/tools/install.sh)\"",
      "bash -c \"$(curl -fsSL https://get.docker.com)\"",
      "bash <(curl -fsSL https://install.sh)",
      "$(curl https://example.com/script.sh) | sh",
      "sh -c \"$(wget -qO- https://install.sh)\"",
      "bash -c \"$(wget -O- https://script.sh)\"",
      "bash <(wget -qO- https://install.sh)",
      "$(wget -qO- https://script.sh) | bash",
      "systemctl start apache2",
      "systemctl stop nginx",
      "systemctl restart postgresql",
      "systemctl enable docker",
      "systemctl disable ufw",
      "apt install nginx",
      "apt remove --purge mysql-server",
      "apt update",
      "apt upgrade",
      "yum install httpd",
      "yum remove firefox",
      "yum update",
      "pacman -S vim",
      "modprobe nvidia",
      "modprobe -r snd_hda_intel",
      "mount /dev/sda1 /mnt",
      "umount /mnt",
      "iptables -A INPUT -p tcp --dport 22 -j ACCEPT",
      "sudo rm -rf /var/log/*",
      "sudo apt update && sudo apt upgrade",
      "echo 'sudo ls' > script.sh",
      "ls",
      "ls -la",
      "ls /home/user",
      "cd",
      "cd /home/user/documents",
      "pwd",
      "echo hello",
      "echo $HOME",
      "cat README.md",
      "cat file1.txt file2.txt",
      "head -n 10 log.txt",
      "tail -f /var/log/syslog",
      "grep 'pattern' file.txt",
      "grep -r 'error' /var/log/",
      "find . -name '*.go'",
      "find . -name '*.tmp' -exec ls -l {} \\;",
      "git status",
      "git log --oneline",
      "git diff HEAD~1",
      "git branch -a",
      "git show HEAD",
      "ps aux",
      "ps aux | grep nginx",
      "which python3",
      "whereis gcc",
      "man ls",
      "man 5 passwd",
      "help cd",
      "systemctl status nginx",
      "systemctl status",
      "ls -lahS --color=auto",
      "grep -rn --include='*.go' 'func main'",
      "find /usr -type f -name '*.conf' -readable",
      "unknowncmd --flag",
      "./myscript.sh",
      "python3 script.py",
      "node app.js",
      "make build",
      "docker ps",
      "git add .",
      "npm install",
      "",
      "   ",
      "  ls   -la  ",
      "sudo git status",
      "sudo systemctl status",
      "any command",
      "sudo apt install vim",
      "ls -la /home/user",
      "some_custom_tool --flag",
      "df -h",
      "rm -rf / --no-preserve-root",
      "rm / -rf",
      "rm -rf /*",
      "rm -rf /tmp/cache",
      "\tls -la",
      "ls\t-la",
      "git  log",
      "git --no-pager log",
      "git push origin main",
      "rm -rf\t/ ",
      "curl x |sh",
      "cat notes | sh",
      "echo ok > /dev/sda",
      "lsblk",
      "cat /etc/passwd | sudo tee x"
    }

Commands == ExampleCommands \cup Compose(MaxPieces)

\* the commands the Analyzer's test harness calls AnalyzeCommand with
ProbeCommands ==
    { "sudo ls", "sudo git status", "rm -rf /", "apt update",
      "ls", "git status", "ps aux | grep nginx",
      "", "  ls   -la  ", "unknowncmd --flag" }


(***************************************************************************)
(* package exit: exit.Error and NewError.  A clean exit (an empty format)  *)
(* carries the code and no message.                                        *)
(***************************************************************************)
NewError(code, format) ==
    [isNil |-> FALSE, Exit |-> TRUE, Code |-> code, Msg |-> format]

\* The process exit status for the error Execute returned: 0 for nil, the
\* Code of an exit.Error, and the generic error code for an error that is
\* no exit.Error (an error of cobra or of loadConfig).
ProcessExitCode(err) ==
    IF err.isNil THEN CodeSuccess
    ELSE IF err.Exit THEN err.Code
    ELSE CodeError

(***************************************************************************)
(* package ai: the mock client's own safety opinion.                       *)
(***************************************************************************)
\* contains(s, substr)
Contains(s, substr) == Lit(s, Positions(s), substr) # {}

\* containsDangerousPatterns
ContainsDangerousPatterns(command) ==
    \E pattern \in { "rm -rf", "sudo", "dd", "mkfs", "fdisk", "systemctl start",
                     "systemctl stop", "apt install", "yum install", "pacman -S" } :
        Contains(command, pattern)

(***************************************************************************)
(* package ai: the Gemini client.  The text of the API response is cleaned *)
(* of a Markdown fence and decoded as JSON into geminiResponse.  The       *)
(* decoder is encoding/json: it reads the whole grammar of JSON values     *)
(* (objects, arrays, strings with their escapes, numbers, true, false and  *)
(* null), stores the string members whose keys match a field of            *)
(* geminiResponse and skips the members of other keys.                     *)
(***************************************************************************)
(***************************************************************************)
(* The characters of the model.  A Go string is a sequence of bytes, read  *)
(* as UTF-8; a string of the model is a sequence of UTF-16 code units, a   *)
(* character above U+FFFF being a pair of surrogates.  A string constant   *)
(* can hold the code units U+0001 to U+00FF other than the backquote       *)
(* (U+0060), and the code units above U+00FF whose low byte is 0x80 or     *)
(* more.  Every code unit is written with these:                           *)
(*   - the backquote is written as U+001A;                                 *)
(*   - a code unit k a string constant cannot hold (U+0000, and the units  *)
(*     above U+00FF whose low byte is below 0x80), and each of U+001A and  *)
(*     U+001B, is written as two characters: Shift (U+001B) and the        *)
(*     character of k + 128;                                               *)
(*   - every other code unit is written as itself.                         *)
(* A string of the model is well formed: each Shift in it is followed by   *)
(* the character of a code unit whose low byte is 0x80 or more.            *)
(***************************************************************************)
\* the code units above U+00FF: HighChars[b] holds the units 256*b+128 to
\* 256*b+255 in their order.  The surrogates are written in pairs:
\* HighChars[b] for b in 216 .. 219 holds, for i in 0 .. 127, the high
\* surrogate 256*b+128+i followed by the low surrogate 256*(b+4)+128+i.
HighChars ==
    << "ƀƁƂƃƄƅƆƇƈƉƊƋƌƍƎƏƐƑƒƓƔƕƖƗƘƙƚƛƜƝƞƟƠơƢƣƤƥƦƧƨƩƪƫƬƭƮƯưƱƲƳƴƵƶƷƸƹƺƻƼƽƾƿǀǁǂǃǄǅǆǇǈǉǊǋǌǍǎǏǐǑǒǓǔǕǖǗǘǙǚǛǜǝǞǟǠǡǢǣǤǥǦǧǨǩǪǫǬǭǮǯǰǱǲǳǴǵǶǷǸǹǺǻǼǽǾǿ",
       "ʀʁʂʃʄʅʆʇʈʉʊʋʌʍʎʏʐʑʒʓʔʕʖʗʘʙʚʛʜʝʞʟʠʡʢʣʤʥʦʧʨʩʪʫʬʭʮʯʰʱʲʳʴʵʶʷʸʹʺʻʼʽʾʿˀˁ˂˃˄˅ˆˇˈˉˊˋˌˍˎˏːˑ˒˓˔˕˖˗˘˙˚˛˜˝˞˟ˠˡˢˣˤ˥˦˧˨˩˪˫ˬ˭ˮ˯˰˱˲˳˴˵˶˷˸˹˺˻˼˽˾˿",
       "΀΁΂΃΄΅Ά·ΈΉΊ΋Ό΍ΎΏΐΑΒΓΔΕΖΗΘΙΚΛΜΝΞΟΠΡ΢ΣΤΥΦΧΨΩΪΫάέήίΰαβγδεζηθικλμνξοπρςστυφχψωϊϋόύώϏϐϑϒϓϔϕϖϗϘϙϚϛϜϝϞϟϠϡϢϣϤϥϦϧϨϩϪϫϬϭϮϯϰϱϲϳϴϵ϶ϷϸϹϺϻϼϽϾϿ",
       "Ҁҁ҂҃҄҅҆҇҈҉ҊҋҌҍҎҏҐґҒғҔҕҖҗҘҙҚқҜҝҞҟҠҡҢңҤҥҦҧҨҩҪҫҬҭҮүҰұҲҳҴҵҶҷҸҹҺһҼҽҾҿӀӁӂӃӄӅӆӇӈӉӊӋӌӍӎӏӐӑӒӓӔӕӖӗӘәӚӛӜӝӞӟӠӡӢӣӤӥӦӧӨөӪӫӬӭӮӯӰӱӲӳӴӵӶӷӸӹӺӻӼӽӾӿ",
       "րցւփքօֆևֈ։֊֋֌֍֎֏֐ְֱֲֳִֵֶַָֹֺֻּֽ֑֖֛֢֣֤֥֦֧֪֚֭֮֒֓֔֕֗֘֙֜֝֞֟֠֡֨֩֫֬֯־ֿ׀ׁׂ׃ׅׄ׆ׇ׈׉׊׋׌׍׎׏אבגדהוזחטיךכלםמןנסעףפץצקרשת׫׬׭׮ׯװױײ׳״׵׶׷׸׹׺׻׼׽׾׿",
       "ڀځڂڃڄڅچڇڈډڊڋڌڍڎڏڐڑڒړڔڕږڗژڙښڛڜڝڞڟڠڡڢڣڤڥڦڧڨکڪګڬڭڮگڰڱڲڳڴڵڶڷڸڹںڻڼڽھڿۀہۂۃۄۅۆۇۈۉۊۋیۍێۏېۑےۓ۔ەۖۗۘۙۚۛۜ۝۞ۣ۟۠ۡۢۤۥۦۧۨ۩۪ۭ۫۬ۮۯ۰۱۲۳۴۵۶۷۸۹ۺۻۼ۽۾ۿ",
       "ހށނރބޅކއވމފދތލގޏސޑޒޓޔޕޖޗޘޙޚޛޜޝޞޟޠޡޢޣޤޥަާިީުޫެޭޮޯްޱ޲޳޴޵޶޷޸޹޺޻޼޽޾޿߀߁߂߃߄߅߆߇߈߉ߊߋߌߍߎߏߐߑߒߓߔߕߖߗߘߙߚߛߜߝߞߟߠߡߢߣߤߥߦߧߨߩߪ߲߫߬߭߮߯߰߱߳ߴߵ߶߷߸߹ߺ߻߼߽߾߿",
       "ࢀࢁࢂࢃࢄࢅࢆࢇ࢈ࢉࢊࢋࢌࢍࢎ࢏࢐࢑࢒࢓࢔࢕࢖࢙࢚࢛ࢗ࢘࢜࢝࢞࢟ࢠࢡࢢࢣࢤࢥࢦࢧࢨࢩࢪࢫࢬࢭࢮࢯࢰࢱࢲࢳࢴࢵࢶࢷࢸࢹࢺࢻࢼࢽࢾࢿࣀࣁࣂࣃࣄࣅࣆࣇࣈࣉ࣏࣐࣑࣒࣓࣊࣋࣌࣍࣎ࣔࣕࣖࣗࣘࣙࣚࣛࣜࣝࣞࣟ࣠࣡࣢ࣰࣱࣲࣣࣦࣩ࣭࣮࣯ࣶࣹࣺࣤࣥࣧࣨ࣪࣫࣬ࣳࣴࣵࣷࣸࣻࣼࣽࣾࣿ",
       "ঀঁংঃ঄অআইঈউঊঋঌ঍঎এঐ঑঒ওঔকখগঘঙচছজঝঞটঠডঢণতথদধন঩পফবভমযর঱ল঳঴঵শষসহ঺঻়ঽািীুূৃৄ৅৆েৈ৉৊োৌ্ৎ৏৐৑৒৓৔৕৖ৗ৘৙৚৛ড়ঢ়৞য়ৠৡৢৣ৤৥০১২৩৪৫৬৭৮৯ৰৱ৲৳৴৵৶৷৸৹৺৻ৼ৽৾৿",
       "઀ઁંઃ઄અઆઇઈઉઊઋઌઍ઎એઐઑ઒ઓઔકખગઘઙચછજઝઞટઠડઢણતથદધન઩પફબભમયર઱લળ઴વશષસહ઺઻઼ઽાિીુૂૃૄૅ૆ેૈૉ૊ોૌ્૎૏ૐ૑૒૓૔૕૖૗૘૙૚૛૜૝૞૟ૠૡૢૣ૤૥૦૧૨૩૪૫૬૭૮૯૰૱૲૳૴૵૶૷૸ૹૺૻૼ૽૾૿",
       "஀஁ஂஃ஄அஆஇஈஉஊ஋஌஍எஏஐ஑ஒஓஔக஖஗஘ஙச஛ஜ஝ஞட஠஡஢ணத஥஦஧நனப஫஬஭மயரறலளழவஶஷஸஹ஺஻஼஽ாிீுூ௃௄௅ெேை௉ொோௌ்௎௏ௐ௑௒௓௔௕௖ௗ௘௙௚௛௜௝௞௟௠௡௢௣௤௥௦௧௨௩௪௫௬௭௮௯௰௱௲௳௴௵௶௷௸௹௺௻௼௽௾௿",
       "ಀಁಂಃ಄ಅಆಇಈಉಊಋಌ಍ಎಏಐ಑ಒಓಔಕಖಗಘಙಚಛಜಝಞಟಠಡಢಣತಥದಧನ಩ಪಫಬಭಮಯರಱಲಳ಴ವಶಷಸಹ಺಻಼ಽಾಿೀುೂೃೄ೅ೆೇೈ೉ೊೋೌ್೎೏೐೑೒೓೔ೕೖ೗೘೙೚೛೜ೝೞ೟ೠೡೢೣ೤೥೦೧೨೩೪೫೬೭೮೯೰ೱೲೳ೴೵೶೷೸೹೺೻೼೽೾೿",
       "඀ඁංඃ඄අආඇඈඉඊඋඌඍඎඏඐඑඒඓඔඕඖ඗඘඙කඛගඝඞඟචඡජඣඤඥඦටඨඩඪණඬතථදධන඲ඳපඵබභමඹයර඼ල඾඿වශෂසහළෆ෇෈෉්෋෌෍෎ාැෑිීු෕ූ෗ෘෙේෛොෝෞෟ෠෡෢෣෤෥෦෧෨෩෪෫෬෭෮෯෰෱ෲෳ෴෵෶෷෸෹෺෻෼෽෾෿",
       "຀ກຂ຃ຄ຅ຆງຈຉຊ຋ຌຍຎຏຐຑຒຓດຕຖທຘນບປຜຝພຟຠມຢຣ຤ລ຦ວຨຩສຫຬອຮຯະັາຳິີຶື຺ຸູົຼຽ຾຿ເແໂໃໄ໅ໆ໇່້໊໋໌ໍ໎໏໐໑໒໓໔໕໖໗໘໙໚໛ໜໝໞໟ໠໡໢໣໤໥໦໧໨໩໪໫໬໭໮໯໰໱໲໳໴໵໶໷໸໹໺໻໼໽໾໿",
       "྄ཱྀྀྂྃ྅྆྇ྈྉྊྋྌྍྎྏྐྑྒྒྷྔྕྖྗ྘ྙྚྛྜྜྷྞྟྠྡྡྷྣྤྥྦྦྷྨྩྪྫྫྷྭྮྯྰྱྲླྴྵྶྷྸྐྵྺྻྼ྽྾྿࿀࿁࿂࿃࿄࿅࿆࿇࿈࿉࿊࿋࿌࿍࿎࿏࿐࿑࿒࿓࿔࿕࿖࿗࿘࿙࿚࿛࿜࿝࿞࿟࿠࿡࿢࿣࿤࿥࿦࿧࿨࿩࿪࿫࿬࿭࿮࿯࿰࿱࿲࿳࿴࿵࿶࿷࿸࿹࿺࿻࿼࿽࿾࿿",
       "ႀႁႂႃႄႅႆႇႈႉႊႋႌႍႎႏ႐႑႒႓႔႕႖႗႘႙ႚႛႜႝ႞႟ႠႡႢႣႤႥႦႧႨႩႪႫႬႭႮႯႰႱႲႳႴႵႶႷႸႹႺႻႼႽႾႿჀჁჂჃჄჅ჆Ⴧ჈჉჊჋჌Ⴭ჎჏აბგდევზთიკლმნოპჟრსტუფქღყშჩცძწჭხჯჰჱჲჳჴჵჶჷჸჹჺ჻ჼჽჾჿ",
       "ᆀᆁᆂᆃᆄᆅᆆᆇᆈᆉᆊᆋᆌᆍᆎᆏᆐᆑᆒᆓᆔᆕᆖᆗᆘᆙᆚᆛᆜᆝᆞᆟᆠᆡᆢᆣᆤᆥᆦᆧᆨᆩᆪᆫᆬᆭᆮᆯᆰᆱᆲᆳᆴᆵᆶᆷᆸᆹᆺᆻᆼᆽᆾᆿᇀᇁᇂᇃᇄᇅᇆᇇᇈᇉᇊᇋᇌᇍᇎᇏᇐᇑᇒᇓᇔᇕᇖᇗᇘᇙᇚᇛᇜᇝᇞᇟᇠᇡᇢᇣᇤᇥᇦᇧᇨᇩᇪᇫᇬᇭᇮᇯᇰᇱᇲᇳᇴᇵᇶᇷᇸᇹᇺᇻᇼᇽᇾᇿ",
       "ኀኁኂኃኄኅኆኇኈ኉ኊኋኌኍ኎኏ነኑኒናኔንኖኗኘኙኚኛኜኝኞኟአኡኢኣኤእኦኧከኩኪካኬክኮኯኰ኱ኲኳኴኵ኶኷ኸኹኺኻኼኽኾ኿ዀ዁ዂዃዄዅ዆዇ወዉዊዋዌውዎዏዐዑዒዓዔዕዖ዗ዘዙዚዛዜዝዞዟዠዡዢዣዤዥዦዧየዩዪያዬይዮዯደዱዲዳዴድዶዷዸዹዺዻዼዽዾዿ",
       "ᎀᎁᎂᎃᎄᎅᎆᎇᎈᎉᎊᎋᎌᎍᎎᎏ᎐᎑᎒᎓᎔᎕᎖᎗᎘᎙᎚᎛᎜᎝᎞᎟ᎠᎡᎢᎣᎤᎥᎦᎧᎨᎩᎪᎫᎬᎭᎮᎯᎰᎱᎲᎳᎴᎵᎶᎷᎸᎹᎺᎻᎼᎽᎾᎿᏀᏁᏂᏃᏄᏅᏆᏇᏈᏉᏊᏋᏌᏍᏎᏏᏐᏑᏒᏓᏔᏕᏖᏗᏘᏙᏚᏛᏜᏝᏞᏟᏠᏡᏢᏣᏤᏥᏦᏧᏨᏩᏪᏫᏬᏭᏮᏯᏰᏱᏲᏳᏴᏵ᏶᏷ᏸᏹᏺᏻᏼᏽ᏾᏿",
       "ᒀᒁᒂᒃᒄᒅᒆᒇᒈᒉᒊᒋᒌᒍᒎᒏᒐᒑᒒᒓᒔᒕᒖᒗᒘᒙᒚᒛᒜᒝᒞᒟᒠᒡᒢᒣᒤᒥᒦᒧᒨᒩᒪᒫᒬᒭᒮᒯᒰᒱᒲᒳᒴᒵᒶᒷᒸᒹᒺᒻᒼᒽᒾᒿᓀᓁᓂᓃᓄᓅᓆᓇᓈᓉᓊᓋᓌᓍᓎᓏᓐᓑᓒᓓᓔᓕᓖᓗᓘᓙᓚᓛᓜᓝᓞᓟᓠᓡᓢᓣᓤᓥᓦᓧᓨᓩᓪᓫᓬᓭᓮᓯᓰᓱᓲᓳᓴᓵᓶᓷᓸᓹᓺᓻᓼᓽᓾᓿ",
       "ᖀᖁᖂᖃᖄᖅᖆᖇᖈᖉᖊᖋᖌᖍᖎᖏᖐᖑᖒᖓᖔᖕᖖᖗᖘᖙᖚᖛᖜᖝᖞᖟᖠᖡᖢᖣᖤᖥᖦᖧᖨᖩᖪᖫᖬᖭᖮᖯᖰᖱᖲᖳᖴᖵᖶᖷᖸᖹᖺᖻᖼᖽᖾᖿᗀᗁᗂᗃᗄᗅᗆᗇᗈᗉᗊᗋᗌᗍᗎᗏᗐᗑᗒᗓᗔᗕᗖᗗᗘᗙᗚᗛᗜᗝᗞᗟᗠᗡᗢᗣᗤᗥᗦᗧᗨᗩᗪᗫᗬᗭᗮᗯᗰᗱᗲᗳᗴᗵᗶᗷᗸᗹᗺᗻᗼᗽᗾᗿ",
       " ᚁᚂᚃᚄᚅᚆᚇᚈᚉᚊᚋᚌᚍᚎᚏᚐᚑᚒᚓᚔᚕᚖᚗᚘᚙᚚ᚛᚜᚝᚞᚟ᚠᚡᚢᚣᚤᚥᚦᚧᚨᚩᚪᚫᚬᚭᚮᚯᚰᚱᚲᚳᚴᚵᚶᚷᚸᚹᚺᚻᚼᚽᚾᚿᛀᛁᛂᛃᛄᛅᛆᛇᛈᛉᛊᛋᛌᛍᛎᛏᛐᛑᛒᛓᛔᛕᛖᛗᛘᛙᛚᛛᛜᛝᛞᛟᛠᛡᛢᛣᛤᛥᛦᛧᛨᛩᛪ᛫᛬᛭ᛮᛯᛰᛱᛲᛳᛴᛵᛶᛷᛸ᛹᛺᛻᛼᛽᛾᛿",
       "កខគឃងចឆជឈញដឋឌឍណតថទធនបផពភមយរលវឝឞសហឡអឣឤឥឦឧឨឩឪឫឬឭឮឯឰឱឲឳ឴឵ាិីឹឺុូួើឿៀេែៃោៅំះៈ៉៊់៌៍៎៏័៑្៓។៕៖ៗ៘៙៚៛ៜ៝៞៟០១២៣៤៥៦៧៨៩៪៫៬៭៮៯៰៱៲៳៴៵៶៷៸៹៺៻៼៽៾៿",
       "ᢀᢁᢂᢃᢄᢅᢆᢇᢈᢉᢊᢋᢌᢍᢎᢏᢐᢑᢒᢓᢔᢕᢖᢗᢘᢙᢚᢛᢜᢝᢞᢟᢠᢡᢢᢣᢤᢥᢦᢧᢨᢩᢪ᢫᢬᢭᢮᢯ᢰᢱᢲᢳᢴᢵᢶᢷᢸᢹᢺᢻᢼᢽᢾᢿᣀᣁᣂᣃᣄᣅᣆᣇᣈᣉᣊᣋᣌᣍᣎᣏᣐᣑᣒᣓᣔᣕᣖᣗᣘᣙᣚᣛᣜᣝᣞᣟᣠᣡᣢᣣᣤᣥᣦᣧᣨᣩᣪᣫᣬᣭᣮᣯᣰᣱᣲᣳᣴᣵ᣶᣷᣸᣹᣺᣻᣼᣽᣾᣿",
       "ᦀᦁᦂᦃᦄᦅᦆᦇᦈᦉᦊᦋᦌᦍᦎᦏᦐᦑᦒᦓᦔᦕᦖᦗᦘᦙᦚᦛᦜᦝᦞᦟᦠᦡᦢᦣᦤᦥᦦᦧᦨᦩᦪᦫ᦬᦭᦮᦯ᦰᦱᦲᦳᦴᦵᦶᦷᦸᦹᦺᦻᦼᦽᦾᦿᧀᧁᧂᧃᧄᧅᧆᧇᧈᧉ᧊᧋᧌᧍᧎᧏᧐᧑᧒᧓᧔᧕᧖᧗᧘᧙᧚᧛᧜᧝᧞᧟᧠᧡᧢᧣᧤᧥᧦᧧᧨᧩᧪᧫᧬᧭᧮᧯᧰᧱᧲᧳᧴᧵᧶᧷᧸᧹᧺᧻᧼᧽᧾᧿",
       "᪀᪁᪂᪃᪄᪅᪆᪇᪈᪉᪊᪋᪌᪍᪎᪏᪐᪑᪒᪓᪔᪕᪖᪗᪘᪙᪚᪛᪜᪝᪞᪟᪠᪡᪢᪣᪤᪥᪦ᪧ᪨᪩᪪᪫᪬᪭᪮᪯᪵᪶᪷᪸᪹᪺᪽᪰᪱᪲᪳᪴᪻᪼᪾ᪿᫀ᫃᫄᫊᫁᫂᫅᫆᫇᫈᫉᫋ᫌᫍᫎ᫏᫐᫑᫒᫓᫔᫕᫖᫗᫘᫙᫚᫛᫜᫝᫞᫟᫠᫡᫢᫣᫤᫥᫦᫧᫨᫩᫪᫫᫬᫭᫮᫯᫰᫱᫲᫳᫴᫵᫶᫷᫸᫹᫺᫻᫼᫽᫾᫿",
       "ᮀᮁᮂᮃᮄᮅᮆᮇᮈᮉᮊᮋᮌᮍᮎᮏᮐᮑᮒᮓᮔᮕᮖᮗᮘᮙᮚᮛᮜᮝᮞᮟᮠᮡᮢᮣᮤᮥᮦᮧᮨᮩ᮪᮫ᮬᮭᮮᮯ᮰᮱᮲᮳᮴᮵᮶᮷᮸᮹ᮺᮻᮼᮽᮾᮿᯀᯁᯂᯃᯄᯅᯆᯇᯈᯉᯊᯋᯌᯍᯎᯏᯐᯑᯒᯓᯔᯕᯖᯗᯘᯙᯚᯛᯜᯝᯞᯟᯠᯡᯢᯣᯤᯥ᯦ᯧᯨᯩᯪᯫᯬᯭᯮᯯᯰᯱ᯲᯳᯴᯵᯶᯷᯸᯹᯺᯻᯼᯽᯾᯿",
       "ᲀᲁᲂᲃᲄᲅᲆᲇᲈᲉᲊ᲋᲌᲍᲎᲏ᲐᲑᲒᲓᲔᲕᲖᲗᲘᲙᲚᲛᲜᲝᲞᲟᲠᲡᲢᲣᲤᲥᲦᲧᲨᲩᲪᲫᲬᲭᲮᲯᲰᲱᲲᲳᲴᲵᲶᲷᲸᲹᲺ᲻᲼ᲽᲾᲿ᳀᳁᳂᳃᳄᳅᳆᳇᳈᳉᳊᳋᳌᳍᳎᳏᳐᳑᳒᳓᳔᳕᳖᳗᳘᳙᳜᳝᳞᳟᳚᳛᳠᳡᳢᳣᳤᳥᳦᳧᳨ᳩᳪᳫᳬ᳭ᳮᳯᳰᳱᳲᳳ᳴ᳵᳶ᳷᳸᳹ᳺ᳻᳼᳽᳾᳿",
       "ᶀᶁᶂᶃᶄᶅᶆᶇᶈᶉᶊᶋᶌᶍᶎᶏᶐᶑᶒᶓᶔᶕᶖᶗᶘᶙᶚᶛᶜᶝᶞᶟᶠᶡᶢᶣᶤᶥᶦᶧᶨᶩᶪᶫᶬᶭᶮᶯᶰᶱᶲᶳᶴᶵᶶᶷᶸᶹᶺᶻᶼᶽᶾᶿ᷐᷎᷺᷂᷊᷏᷹᷽᷿᷷᷸᷀᷁᷃᷄᷅᷆᷇᷈᷉᷋᷌᷑᷒ᷓᷔᷕᷖᷗᷘᷙᷚᷛᷜᷝᷞᷟᷠᷡᷢᷣᷤᷥᷦᷧᷨᷩᷪᷫᷬᷭᷮᷯᷰᷱᷲᷳᷴ᷵᷻᷾᷶᷼᷍",
       "ẀẁẂẃẄẅẆẇẈẉẊẋẌẍẎẏẐẑẒẓẔẕẖẗẘẙẚẛẜẝẞẟẠạẢảẤấẦầẨẩẪẫẬậẮắẰằẲẳẴẵẶặẸẹẺẻẼẽẾếỀềỂểỄễỆệỈỉỊịỌọỎỏỐốỒồỔổỖỗỘộỚớỜờỞởỠỡỢợỤụỦủỨứỪừỬửỮữỰựỲỳỴỵỶỷỸỹỺỻỼỽỾỿ",
       "ᾀᾁᾂᾃᾄᾅᾆᾇᾈᾉᾊᾋᾌᾍᾎᾏᾐᾑᾒᾓᾔᾕᾖᾗᾘᾙᾚᾛᾜᾝᾞᾟᾠᾡᾢᾣᾤᾥᾦᾧᾨᾩᾪᾫᾬᾭᾮᾯᾰᾱᾲᾳᾴ᾵ᾶᾷᾸᾹᾺΆᾼ᾽ι᾿῀῁ῂῃῄ῅ῆῇῈΈῊΉῌ῍῎῏ῐῑῒΐ῔῕ῖῗῘῙῚΊ῜῝῞῟ῠῡῢΰῤῥῦῧῨῩῪΎῬ῭΅`῰῱ῲῳῴ῵ῶῷῸΌῺΏῼ´῾῿",
       "₀₁₂₃₄₅₆₇₈₉₊₋₌₍₎₏ₐₑₒₓₔₕₖₗₘₙₚₛₜ₝₞₟₠₡₢₣₤₥₦₧₨₩₪₫€₭₮₯₰₱₲₳₴₵₶₷₸₹₺₻₼₽₾₿⃀⃁⃂⃃⃄⃅⃆⃇⃈⃉⃊⃋⃌⃍⃎⃏⃒⃓⃘⃙⃚⃐⃑⃔⃕⃖⃗⃛⃜⃝⃞⃟⃠⃡⃢⃣⃤⃥⃦⃪⃫⃨⃬⃭⃮⃯⃧⃩⃰⃱⃲⃳⃴⃵⃶⃷⃸⃹⃺⃻⃼⃽⃾⃿",
       "ↀↁↂↃↄↅↆↇↈ↉↊↋↌↍↎↏←↑→↓↔↕↖↗↘↙↚↛↜↝↞↟↠↡↢↣↤↥↦↧↨↩↪↫↬↭↮↯↰↱↲↳↴↵↶↷↸↹↺↻↼↽↾↿⇀⇁⇂⇃⇄⇅⇆⇇⇈⇉⇊⇋⇌⇍⇎⇏⇐⇑⇒⇓⇔⇕⇖⇗⇘⇙⇚⇛⇜⇝⇞⇟⇠⇡⇢⇣⇤⇥⇦⇧⇨⇩⇪⇫⇬⇭⇮⇯⇰⇱⇲⇳⇴⇵⇶⇷⇸⇹⇺⇻⇼⇽⇾⇿",
       "⊀⊁⊂⊃⊄⊅⊆⊇⊈⊉⊊⊋⊌⊍⊎⊏⊐⊑⊒⊓⊔⊕⊖⊗⊘⊙⊚⊛⊜⊝⊞⊟⊠⊡⊢⊣⊤⊥⊦⊧⊨⊩⊪⊫⊬⊭⊮⊯⊰⊱⊲⊳⊴⊵⊶⊷⊸⊹⊺⊻⊼⊽⊾⊿⋀⋁⋂⋃⋄⋅⋆⋇⋈⋉⋊⋋⋌⋍⋎⋏⋐⋑⋒⋓⋔⋕⋖⋗⋘⋙⋚⋛⋜⋝⋞⋟⋠⋡⋢⋣⋤⋥⋦⋧⋨⋩⋪⋫⋬⋭⋮⋯⋰⋱⋲⋳⋴⋵⋶⋷⋸⋹⋺⋻⋼⋽⋾⋿",
       "⎀⎁⎂⎃⎄⎅⎆⎇⎈⎉⎊⎋⎌⎍⎎⎏⎐⎑⎒⎓⎔⎕⎖⎗⎘⎙⎚⎛⎜⎝⎞⎟⎠⎡⎢⎣⎤⎥⎦⎧⎨⎩⎪⎫⎬⎭⎮⎯⎰⎱⎲⎳⎴⎵⎶⎷⎸⎹⎺⎻⎼⎽⎾⎿⏀⏁⏂⏃⏄⏅⏆⏇⏈⏉⏊⏋⏌⏍⏎⏏⏐⏑⏒⏓⏔⏕⏖⏗⏘⏙⏚⏛⏜⏝⏞⏟⏠⏡⏢⏣⏤⏥⏦⏧⏨⏩⏪⏫⏬⏭⏮⏯⏰⏱⏲⏳⏴⏵⏶⏷⏸⏹⏺⏻⏼⏽⏾⏿",
       "⒀⒁⒂⒃⒄⒅⒆⒇⒈⒉⒊⒋⒌⒍⒎⒏⒐⒑⒒⒓⒔⒕⒖⒗⒘⒙⒚⒛⒜⒝⒞⒟⒠⒡⒢⒣⒤⒥⒦⒧⒨⒩⒪⒫⒬⒭⒮⒯⒰⒱⒲⒳⒴⒵ⒶⒷⒸⒹⒺⒻⒼⒽⒾⒿⓀⓁⓂⓃⓄⓅⓆⓇⓈⓉⓊⓋⓌⓍⓎⓏⓐⓑⓒⓓⓔⓕⓖⓗⓘⓙⓚⓛⓜⓝⓞⓟⓠⓡⓢⓣⓤⓥⓦⓧⓨⓩ⓪⓫⓬⓭⓮⓯⓰⓱⓲⓳⓴⓵⓶⓷⓸⓹⓺⓻⓼⓽⓾⓿",
       "▀▁▂▃▄▅▆▇█▉▊▋▌▍▎▏▐░▒▓▔▕▖▗▘▙▚▛▜▝▞▟■□▢▣▤▥▦▧▨▩▪▫▬▭▮▯▰▱▲△▴▵▶▷▸▹►▻▼▽▾▿◀◁◂◃◄◅◆◇◈◉◊○◌◍◎●◐◑◒◓◔◕◖◗◘◙◚◛◜◝◞◟◠◡◢◣◤◥◦◧◨◩◪◫◬◭◮◯◰◱◲◳◴◵◶◷◸◹◺◻◼◽◾◿",
       "⚀⚁⚂⚃⚄⚅⚆⚇⚈⚉⚊⚋⚌⚍⚎⚏⚐⚑⚒⚓⚔⚕⚖⚗⚘⚙⚚⚛⚜⚝⚞⚟⚠⚡⚢⚣⚤⚥⚦⚧⚨⚩⚪⚫⚬⚭⚮⚯⚰⚱⚲⚳⚴⚵⚶⚷⚸⚹⚺⚻⚼⚽⚾⚿⛀⛁⛂⛃⛄⛅⛆⛇⛈⛉⛊⛋⛌⛍⛎⛏⛐⛑⛒⛓⛔⛕⛖⛗⛘⛙⛚⛛⛜⛝⛞⛟⛠⛡⛢⛣⛤⛥⛦⛧⛨⛩⛪⛫⛬⛭⛮⛯⛰⛱⛲⛳⛴⛵⛶⛷⛸⛹⛺⛻⛼⛽⛾⛿",
       "➀➁➂➃➄➅➆➇➈➉➊➋➌➍➎➏➐➑➒➓➔➕➖➗➘➙➚➛➜➝➞➟➠➡➢➣➤➥➦➧➨➩➪➫➬➭➮➯➰➱➲➳➴➵➶➷➸➹➺➻➼➽➾➿⟀⟁⟂⟃⟄⟅⟆⟇⟈⟉⟊⟋⟌⟍⟎⟏⟐⟑⟒⟓⟔⟕⟖⟗⟘⟙⟚⟛⟜⟝⟞⟟⟠⟡⟢⟣⟤⟥⟦⟧⟨⟩⟪⟫⟬⟭⟮⟯⟰⟱⟲⟳⟴⟵⟶⟷⟸⟹⟺⟻⟼⟽⟾⟿",
       "⢀⢁⢂⢃⢄⢅⢆⢇⢈⢉⢊⢋⢌⢍⢎⢏⢐⢑⢒⢓⢔⢕⢖⢗⢘⢙⢚⢛⢜⢝⢞⢟⢠⢡⢢⢣⢤⢥⢦⢧⢨⢩⢪⢫⢬⢭⢮⢯⢰⢱⢲⢳⢴⢵⢶⢷⢸⢹⢺⢻⢼⢽⢾⢿⣀⣁⣂⣃⣄⣅⣆⣇⣈⣉⣊⣋⣌⣍⣎⣏⣐⣑⣒⣓⣔⣕⣖⣗⣘⣙⣚⣛⣜⣝⣞⣟⣠⣡⣢⣣⣤⣥⣦⣧⣨⣩⣪⣫⣬⣭⣮⣯⣰⣱⣲⣳⣴⣵⣶⣷⣸⣹⣺⣻⣼⣽⣾⣿",
       "⦀⦁⦂⦃⦄⦅⦆⦇⦈⦉⦊⦋⦌⦍⦎⦏⦐⦑⦒⦓⦔⦕⦖⦗⦘⦙⦚⦛⦜⦝⦞⦟⦠⦡⦢⦣⦤⦥⦦⦧⦨⦩⦪⦫⦬⦭⦮⦯⦰⦱⦲⦳⦴⦵⦶⦷⦸⦹⦺⦻⦼⦽⦾⦿⧀⧁⧂⧃⧄⧅⧆⧇⧈⧉⧊⧋⧌⧍⧎⧏⧐⧑⧒⧓⧔⧕⧖⧗⧘⧙⧚⧛⧜⧝⧞⧟⧠⧡⧢⧣⧤⧥⧦⧧⧨⧩⧪⧫⧬⧭⧮⧯⧰⧱⧲⧳⧴⧵⧶⧷⧸⧹⧺⧻⧼⧽⧾⧿",
       "⪀⪁⪂⪃⪄⪅⪆⪇⪈⪉⪊⪋⪌⪍⪎⪏⪐⪑⪒⪓⪔⪕⪖⪗⪘⪙⪚⪛⪜⪝⪞⪟⪠⪡⪢⪣⪤⪥⪦⪧⪨⪩⪪⪫⪬⪭⪮⪯⪰⪱⪲⪳⪴⪵⪶⪷⪸⪹⪺⪻⪼⪽⪾⪿⫀⫁⫂⫃⫄⫅⫆⫇⫈⫉⫊⫋⫌⫍⫎⫏⫐⫑⫒⫓⫔⫕⫖⫗⫘⫙⫚⫛⫝̸⫝⫞⫟⫠⫡⫢⫣⫤⫥⫦⫧⫨⫩⫪⫫⫬⫭⫮⫯⫰⫱⫲⫳⫴⫵⫶⫷⫸⫹⫺⫻⫼⫽⫾⫿",
       "⮀⮁⮂⮃⮄⮅⮆⮇⮈⮉⮊⮋⮌⮍⮎⮏⮐⮑⮒⮓⮔⮕⮖⮗⮘⮙⮚⮛⮜⮝⮞⮟⮠⮡⮢⮣⮤⮥⮦⮧⮨⮩⮪⮫⮬⮭⮮⮯⮰⮱⮲⮳⮴⮵⮶⮷⮸⮹⮺⮻⮼⮽⮾⮿⯀⯁⯂⯃⯄⯅⯆⯇⯈⯉⯊⯋⯌⯍⯎⯏⯐⯑⯒⯓⯔⯕⯖⯗⯘⯙⯚⯛⯜⯝⯞⯟⯠⯡⯢⯣⯤⯥⯦⯧⯨⯩⯪⯫⯬⯭⯮⯯⯰⯱⯲⯳⯴⯵⯶⯷⯸⯹⯺⯻⯼⯽⯾⯿",
       "ⲀⲁⲂⲃⲄⲅⲆⲇⲈⲉⲊⲋⲌⲍⲎⲏⲐⲑⲒⲓⲔⲕⲖⲗⲘⲙⲚⲛⲜⲝⲞⲟⲠⲡⲢⲣⲤⲥⲦⲧⲨⲩⲪⲫⲬⲭⲮⲯⲰⲱⲲⲳⲴⲵⲶⲷⲸⲹⲺⲻⲼⲽⲾⲿⳀⳁⳂⳃⳄⳅⳆⳇⳈⳉⳊⳋⳌⳍⳎⳏⳐⳑⳒⳓⳔⳕⳖⳗⳘⳙⳚⳛⳜⳝⳞⳟⳠⳡⳢⳣⳤ⳥⳦⳧⳨⳩⳪ⳫⳬⳭⳮ⳯⳰⳱Ⳳⳳ⳴⳵⳶⳷⳸⳹⳺⳻⳼⳽⳾⳿",
       "ⶀⶁⶂⶃⶄⶅⶆⶇⶈⶉⶊⶋⶌⶍⶎⶏⶐⶑⶒⶓⶔⶕⶖ⶗⶘⶙⶚⶛⶜⶝⶞⶟ⶠⶡⶢⶣⶤⶥⶦ⶧ⶨⶩⶪⶫⶬⶭⶮ⶯ⶰⶱⶲⶳⶴⶵⶶ⶷ⶸⶹⶺⶻⶼⶽⶾ⶿ⷀⷁⷂⷃⷄⷅⷆ⷇ⷈⷉⷊⷋⷌⷍⷎ⷏ⷐⷑⷒⷓⷔⷕⷖ⷗ⷘⷙⷚⷛⷜⷝⷞ⷟ⷠⷡⷢⷣⷤⷥⷦⷧⷨⷩⷪⷫⷬⷭⷮⷯⷰⷱⷲⷳⷴⷵⷶⷷⷸⷹⷺⷻⷼⷽⷾⷿ",
       "⺀⺁⺂⺃⺄⺅⺆⺇⺈⺉⺊⺋⺌⺍⺎⺏⺐⺑⺒⺓⺔⺕⺖⺗⺘⺙⺚⺛⺜⺝⺞⺟⺠⺡⺢⺣⺤⺥⺦⺧⺨⺩⺪⺫⺬⺭⺮⺯⺰⺱⺲⺳⺴⺵⺶⺷⺸⺹⺺⺻⺼⺽⺾⺿⻀⻁⻂⻃⻄⻅⻆⻇⻈⻉⻊⻋⻌⻍⻎⻏⻐⻑⻒⻓⻔⻕⻖⻗⻘⻙⻚⻛⻜⻝⻞⻟⻠⻡⻢⻣⻤⻥⻦⻧⻨⻩⻪⻫⻬⻭⻮⻯⻰⻱⻲⻳⻴⻵⻶⻷⻸⻹⻺⻻⻼⻽⻾⻿",
       "⾀⾁⾂⾃⾄⾅⾆⾇⾈⾉⾊⾋⾌⾍⾎⾏⾐⾑⾒⾓⾔⾕⾖⾗⾘⾙⾚⾛⾜⾝⾞⾟⾠⾡⾢⾣⾤⾥⾦⾧⾨⾩⾪⾫⾬⾭⾮⾯⾰⾱⾲⾳⾴⾵⾶⾷⾸⾹⾺⾻⾼⾽⾾⾿⿀⿁⿂⿃⿄⿅⿆⿇⿈⿉⿊⿋⿌⿍⿎⿏⿐⿑⿒⿓⿔⿕⿖⿗⿘⿙⿚⿛⿜⿝⿞⿟⿠⿡⿢⿣⿤⿥⿦⿧⿨⿩⿪⿫⿬⿭⿮⿯⿰⿱⿲⿳⿴⿵⿶⿷⿸⿹⿺⿻⿼⿽⿾⿿",
       "むめもゃやゅゆょよらりるれろゎわゐゑをんゔゕゖ゗゘゙゚゛゜ゝゞゟ゠ァアィイゥウェエォオカガキギクグケゲコゴサザシジスズセゼソゾタダチヂッツヅテデトドナニヌネノハバパヒビピフブプヘベペホボポマミムメモャヤュユョヨラリルレロヮワヰヱヲンヴヵヶヷヸヹヺ・ーヽヾヿ",
       "ㆀㆁㆂㆃㆄㆅㆆㆇㆈㆉㆊㆋㆌㆍㆎ㆏㆐㆑㆒㆓㆔㆕㆖㆗㆘㆙㆚㆛㆜㆝㆞㆟ㆠㆡㆢㆣㆤㆥㆦㆧㆨㆩㆪㆫㆬㆭㆮㆯㆰㆱㆲㆳㆴㆵㆶㆷㆸㆹㆺㆻㆼㆽㆾㆿ㇀㇁㇂㇃㇄㇅㇆㇇㇈㇉㇊㇋㇌㇍㇎㇏㇐㇑㇒㇓㇔㇕㇖㇗㇘㇙㇚㇛㇜㇝㇞㇟㇠㇡㇢㇣㇤㇥㇦㇧㇨㇩㇪㇫㇬㇭㇮㇯ㇰㇱㇲㇳㇴㇵㇶㇷㇸㇹㇺㇻㇼㇽㇾㇿ",
       "㊀㊁㊂㊃㊄㊅㊆㊇㊈㊉㊊㊋㊌㊍㊎㊏㊐㊑㊒㊓㊔㊕㊖㊗㊘㊙㊚㊛㊜㊝㊞㊟㊠㊡㊢㊣㊤㊥㊦㊧㊨㊩㊪㊫㊬㊭㊮㊯㊰㊱㊲㊳㊴㊵㊶㊷㊸㊹㊺㊻㊼㊽㊾㊿㋀㋁㋂㋃㋄㋅㋆㋇㋈㋉㋊㋋㋌㋍㋎㋏㋐㋑㋒㋓㋔㋕㋖㋗㋘㋙㋚㋛㋜㋝㋞㋟㋠㋡㋢㋣㋤㋥㋦㋧㋨㋩㋪㋫㋬㋭㋮㋯㋰㋱㋲㋳㋴㋵㋶㋷㋸㋹㋺㋻㋼㋽㋾㋿",
       "㎀㎁㎂㎃㎄㎅㎆㎇㎈㎉㎊㎋㎌㎍㎎㎏㎐㎑㎒㎓㎔㎕㎖㎗㎘㎙㎚㎛㎜㎝㎞㎟㎠㎡㎢㎣㎤㎥㎦㎧㎨㎩㎪㎫㎬㎭㎮㎯㎰㎱㎲㎳㎴㎵㎶㎷㎸㎹㎺㎻㎼㎽㎾㎿㏀㏁㏂㏃㏄㏅㏆㏇㏈㏉㏊㏋㏌㏍㏎㏏㏐㏑㏒㏓㏔㏕㏖㏗㏘㏙㏚㏛㏜㏝㏞㏟㏠㏡㏢㏣㏤㏥㏦㏧㏨㏩㏪㏫㏬㏭㏮㏯㏰㏱㏲㏳㏴㏵㏶㏷㏸㏹㏺㏻㏼㏽㏾㏿",
       "㒀㒁㒂㒃㒄㒅㒆㒇㒈㒉㒊㒋㒌㒍㒎㒏㒐㒑㒒㒓㒔㒕㒖㒗㒘㒙㒚㒛㒜㒝㒞㒟㒠㒡㒢㒣㒤㒥㒦㒧㒨㒩㒪㒫㒬㒭㒮㒯㒰㒱㒲㒳㒴㒵㒶㒷㒸㒹㒺㒻㒼㒽㒾㒿㓀㓁㓂㓃㓄㓅㓆㓇㓈㓉㓊㓋㓌㓍㓎㓏㓐㓑㓒㓓㓔㓕㓖㓗㓘㓙㓚㓛㓜㓝㓞㓟㓠㓡㓢㓣㓤㓥㓦㓧㓨㓩㓪㓫㓬㓭㓮㓯㓰㓱㓲㓳㓴㓵㓶㓷㓸㓹㓺㓻㓼㓽㓾㓿",
       "㖀㖁㖂㖃㖄㖅㖆㖇㖈㖉㖊㖋㖌㖍㖎㖏㖐㖑㖒㖓㖔㖕㖖㖗㖘㖙㖚㖛㖜㖝㖞㖟㖠㖡㖢㖣㖤㖥㖦㖧㖨㖩㖪㖫㖬㖭㖮㖯㖰㖱㖲㖳㖴㖵㖶㖷㖸㖹㖺㖻㖼㖽㖾㖿㗀㗁㗂㗃㗄㗅㗆㗇㗈㗉㗊㗋㗌㗍㗎㗏㗐㗑㗒㗓㗔㗕㗖㗗㗘㗙㗚㗛㗜㗝㗞㗟㗠㗡㗢㗣㗤㗥㗦㗧㗨㗩㗪㗫㗬㗭㗮㗯㗰㗱㗲㗳㗴㗵㗶㗷㗸㗹㗺㗻㗼㗽㗾㗿",
       "㚀㚁㚂㚃㚄㚅㚆㚇㚈㚉㚊㚋㚌㚍㚎㚏㚐㚑㚒㚓㚔㚕㚖㚗㚘㚙㚚㚛㚜㚝㚞㚟㚠㚡㚢㚣㚤㚥㚦㚧㚨㚩㚪㚫㚬㚭㚮㚯㚰㚱㚲㚳㚴㚵㚶㚷㚸㚹㚺㚻㚼㚽㚾㚿㛀㛁㛂㛃㛄㛅㛆㛇㛈㛉㛊㛋㛌㛍㛎㛏㛐㛑㛒㛓㛔㛕㛖㛗㛘㛙㛚㛛㛜㛝㛞㛟㛠㛡㛢㛣㛤㛥㛦㛧㛨㛩㛪㛫㛬㛭㛮㛯㛰㛱㛲㛳㛴㛵㛶㛷㛸㛹㛺㛻㛼㛽㛾㛿",
       "㞀㞁㞂㞃㞄㞅㞆㞇㞈㞉㞊㞋㞌㞍㞎㞏㞐㞑㞒㞓㞔㞕㞖㞗㞘㞙㞚㞛㞜㞝㞞㞟㞠㞡㞢㞣㞤㞥㞦㞧㞨㞩㞪㞫㞬㞭㞮㞯㞰㞱㞲㞳㞴㞵㞶㞷㞸㞹㞺㞻㞼㞽㞾㞿㟀㟁㟂㟃㟄㟅㟆㟇㟈㟉㟊㟋㟌㟍㟎㟏㟐㟑㟒㟓㟔㟕㟖㟗㟘㟙㟚㟛㟜㟝㟞㟟㟠㟡㟢㟣㟤㟥㟦㟧㟨㟩㟪㟫㟬㟭㟮㟯㟰㟱㟲㟳㟴㟵㟶㟷㟸㟹㟺㟻㟼㟽㟾㟿",
       "㢀㢁㢂㢃㢄㢅㢆㢇㢈㢉㢊㢋㢌㢍㢎㢏㢐㢑㢒㢓㢔㢕㢖㢗㢘㢙㢚㢛㢜㢝㢞㢟㢠㢡㢢㢣㢤㢥㢦㢧㢨㢩㢪㢫㢬㢭㢮㢯㢰㢱㢲㢳㢴㢵㢶㢷㢸㢹㢺㢻㢼㢽㢾㢿㣀㣁㣂㣃㣄㣅㣆㣇㣈㣉㣊㣋㣌㣍㣎㣏㣐㣑㣒㣓㣔㣕㣖㣗㣘㣙㣚㣛㣜㣝㣞㣟㣠㣡㣢㣣㣤㣥㣦㣧㣨㣩㣪㣫㣬㣭㣮㣯㣰㣱㣲㣳㣴㣵㣶㣷㣸㣹㣺㣻㣼㣽㣾㣿",
       "㦀㦁㦂㦃㦄㦅㦆㦇㦈㦉㦊㦋㦌㦍㦎㦏㦐㦑㦒㦓㦔㦕㦖㦗㦘㦙㦚㦛㦜㦝㦞㦟㦠㦡㦢㦣㦤㦥㦦㦧㦨㦩㦪㦫㦬㦭㦮㦯㦰㦱㦲㦳㦴㦵㦶㦷㦸㦹㦺㦻㦼㦽㦾㦿㧀㧁㧂㧃㧄㧅㧆㧇㧈㧉㧊㧋㧌㧍㧎㧏㧐㧑㧒㧓㧔㧕㧖㧗㧘㧙㧚㧛㧜㧝㧞㧟㧠㧡㧢㧣㧤㧥㧦㧧㧨㧩㧪㧫㧬㧭㧮㧯㧰㧱㧲㧳㧴㧵㧶㧷㧸㧹㧺㧻㧼㧽㧾㧿",
       "㪀㪁㪂㪃㪄㪅㪆㪇㪈㪉㪊㪋㪌㪍㪎㪏㪐㪑㪒㪓㪔㪕㪖㪗㪘㪙㪚㪛㪜㪝㪞㪟㪠㪡㪢㪣㪤㪥㪦㪧㪨㪩㪪㪫㪬㪭㪮㪯㪰㪱㪲㪳㪴㪵㪶㪷㪸㪹㪺㪻㪼㪽㪾㪿㫀㫁㫂㫃㫄㫅㫆㫇㫈㫉㫊㫋㫌㫍㫎㫏㫐㫑㫒㫓㫔㫕㫖㫗㫘㫙㫚㫛㫜㫝㫞㫟㫠㫡㫢㫣㫤㫥㫦㫧㫨㫩㫪㫫㫬㫭㫮㫯㫰㫱㫲㫳㫴㫵㫶㫷㫸㫹㫺㫻㫼㫽㫾㫿",
       "㮀㮁㮂㮃㮄㮅㮆㮇㮈㮉㮊㮋㮌㮍㮎㮏㮐㮑㮒㮓㮔㮕㮖㮗㮘㮙㮚㮛㮜㮝㮞㮟㮠㮡㮢㮣㮤㮥㮦㮧㮨㮩㮪㮫㮬㮭㮮㮯㮰㮱㮲㮳㮴㮵㮶㮷㮸㮹㮺㮻㮼㮽㮾㮿㯀㯁㯂㯃㯄㯅㯆㯇㯈㯉㯊㯋㯌㯍㯎㯏㯐㯑㯒㯓㯔㯕㯖㯗㯘㯙㯚㯛㯜㯝㯞㯟㯠㯡㯢㯣㯤㯥㯦㯧㯨㯩㯪㯫㯬㯭㯮㯯㯰㯱㯲㯳㯴㯵㯶㯷㯸㯹㯺㯻㯼㯽㯾㯿",
       "㲀㲁㲂㲃㲄㲅㲆㲇㲈㲉㲊㲋㲌㲍㲎㲏㲐㲑㲒㲓㲔㲕㲖㲗㲘㲙㲚㲛㲜㲝㲞㲟㲠㲡㲢㲣㲤㲥㲦㲧㲨㲩㲪㲫㲬㲭㲮㲯㲰㲱㲲㲳㲴㲵㲶㲷㲸㲹㲺㲻㲼㲽㲾㲿㳀㳁㳂㳃㳄㳅㳆㳇㳈㳉㳊㳋㳌㳍㳎㳏㳐㳑㳒㳓㳔㳕㳖㳗㳘㳙㳚㳛㳜㳝㳞㳟㳠㳡㳢㳣㳤㳥㳦㳧㳨㳩㳪㳫㳬㳭㳮㳯㳰㳱㳲㳳㳴㳵㳶㳷㳸㳹㳺㳻㳼㳽㳾㳿",
       "㶀㶁㶂㶃㶄㶅㶆㶇㶈㶉㶊㶋㶌㶍㶎㶏㶐㶑㶒㶓㶔㶕㶖㶗㶘㶙㶚㶛㶜㶝㶞㶟㶠㶡㶢㶣㶤㶥㶦㶧㶨㶩㶪㶫㶬㶭㶮㶯㶰㶱㶲㶳㶴㶵㶶㶷㶸㶹㶺㶻㶼㶽㶾㶿㷀㷁㷂㷃㷄㷅㷆㷇㷈㷉㷊㷋㷌㷍㷎㷏㷐㷑㷒㷓㷔㷕㷖㷗㷘㷙㷚㷛㷜㷝㷞㷟㷠㷡㷢㷣㷤㷥㷦㷧㷨㷩㷪㷫㷬㷭㷮㷯㷰㷱㷲㷳㷴㷵㷶㷷㷸㷹㷺㷻㷼㷽㷾㷿",
       "㺀㺁㺂㺃㺄㺅㺆㺇㺈㺉㺊㺋㺌㺍㺎㺏㺐㺑㺒㺓㺔㺕㺖㺗㺘㺙㺚㺛㺜㺝㺞㺟㺠㺡㺢㺣㺤㺥㺦㺧㺨㺩㺪㺫㺬㺭㺮㺯㺰㺱㺲㺳㺴㺵㺶㺷㺸㺹㺺㺻㺼㺽㺾㺿㻀㻁㻂㻃㻄㻅㻆㻇㻈㻉㻊㻋㻌㻍㻎㻏㻐㻑㻒㻓㻔㻕㻖㻗㻘㻙㻚㻛㻜㻝㻞㻟㻠㻡㻢㻣㻤㻥㻦㻧㻨㻩㻪㻫㻬㻭㻮㻯㻰㻱㻲㻳㻴㻵㻶㻷㻸㻹㻺㻻㻼㻽㻾㻿",
       "㾀㾁㾂㾃㾄㾅㾆㾇㾈㾉㾊㾋㾌㾍㾎㾏㾐㾑㾒㾓㾔㾕㾖㾗㾘㾙㾚㾛㾜㾝㾞㾟㾠㾡㾢㾣㾤㾥㾦㾧㾨㾩㾪㾫㾬㾭㾮㾯㾰㾱㾲㾳㾴㾵㾶㾷㾸㾹㾺㾻㾼㾽㾾㾿㿀㿁㿂㿃㿄㿅㿆㿇㿈㿉㿊㿋㿌㿍㿎㿏㿐㿑㿒㿓㿔㿕㿖㿗㿘㿙㿚㿛㿜㿝㿞㿟㿠㿡㿢㿣㿤㿥㿦㿧㿨㿩㿪㿫㿬㿭㿮㿯㿰㿱㿲㿳㿴㿵㿶㿷㿸㿹㿺㿻㿼㿽㿾㿿",
       "䂀䂁䂂䂃䂄䂅䂆䂇䂈䂉䂊䂋䂌䂍䂎䂏䂐䂑䂒䂓䂔䂕䂖䂗䂘䂙䂚䂛䂜䂝䂞䂟䂠䂡䂢䂣䂤䂥䂦䂧䂨䂩䂪䂫䂬䂭䂮䂯䂰䂱䂲䂳䂴䂵䂶䂷䂸䂹䂺䂻䂼䂽䂾䂿䃀䃁䃂䃃䃄䃅䃆䃇䃈䃉䃊䃋䃌䃍䃎䃏䃐䃑䃒䃓䃔䃕䃖䃗䃘䃙䃚䃛䃜䃝䃞䃟䃠䃡䃢䃣䃤䃥䃦䃧䃨䃩䃪䃫䃬䃭䃮䃯䃰䃱䃲䃳䃴䃵䃶䃷䃸䃹䃺䃻䃼䃽䃾䃿",
       "䆀䆁䆂䆃䆄䆅䆆䆇䆈䆉䆊䆋䆌䆍䆎䆏䆐䆑䆒䆓䆔䆕䆖䆗䆘䆙䆚䆛䆜䆝䆞䆟䆠䆡䆢䆣䆤䆥䆦䆧䆨䆩䆪䆫䆬䆭䆮䆯䆰䆱䆲䆳䆴䆵䆶䆷䆸䆹䆺䆻䆼䆽䆾䆿䇀䇁䇂䇃䇄䇅䇆䇇䇈䇉䇊䇋䇌䇍䇎䇏䇐䇑䇒䇓䇔䇕䇖䇗䇘䇙䇚䇛䇜䇝䇞䇟䇠䇡䇢䇣䇤䇥䇦䇧䇨䇩䇪䇫䇬䇭䇮䇯䇰䇱䇲䇳䇴䇵䇶䇷䇸䇹䇺䇻䇼䇽䇾䇿",
       "䊀䊁䊂䊃䊄䊅䊆䊇䊈䊉䊊䊋䊌䊍䊎䊏䊐䊑䊒䊓䊔䊕䊖䊗䊘䊙䊚䊛䊜䊝䊞䊟䊠䊡䊢䊣䊤䊥䊦䊧䊨䊩䊪䊫䊬䊭䊮䊯䊰䊱䊲䊳䊴䊵䊶䊷䊸䊹䊺䊻䊼䊽䊾䊿䋀䋁䋂䋃䋄䋅䋆䋇䋈䋉䋊䋋䋌䋍䋎䋏䋐䋑䋒䋓䋔䋕䋖䋗䋘䋙䋚䋛䋜䋝䋞䋟䋠䋡䋢䋣䋤䋥䋦䋧䋨䋩䋪䋫䋬䋭䋮䋯䋰䋱䋲䋳䋴䋵䋶䋷䋸䋹䋺䋻䋼䋽䋾䋿",
       "䎀䎁䎂䎃䎄䎅䎆䎇䎈䎉䎊䎋䎌䎍䎎䎏䎐䎑䎒䎓䎔䎕䎖䎗䎘䎙䎚䎛䎜䎝䎞䎟䎠䎡䎢䎣䎤䎥䎦䎧䎨䎩䎪䎫䎬䎭䎮䎯䎰䎱䎲䎳䎴䎵䎶䎷䎸䎹䎺䎻䎼䎽䎾䎿䏀䏁䏂䏃䏄䏅䏆䏇䏈䏉䏊䏋䏌䏍䏎䏏䏐䏑䏒䏓䏔䏕䏖䏗䏘䏙䏚䏛䏜䏝䏞䏟䏠䏡䏢䏣䏤䏥䏦䏧䏨䏩䏪䏫䏬䏭䏮䏯䏰䏱䏲䏳䏴䏵䏶䏷䏸䏹䏺䏻䏼䏽䏾䏿",
       "䒀䒁䒂䒃䒄䒅䒆䒇䒈䒉䒊䒋䒌䒍䒎䒏䒐䒑䒒䒓䒔䒕䒖䒗䒘䒙䒚䒛䒜䒝䒞䒟䒠䒡䒢䒣䒤䒥䒦䒧䒨䒩䒪䒫䒬䒭䒮䒯䒰䒱䒲䒳䒴䒵䒶䒷䒸䒹䒺䒻䒼䒽䒾䒿䓀䓁䓂䓃䓄䓅䓆䓇䓈䓉䓊䓋䓌䓍䓎䓏䓐䓑䓒䓓䓔䓕䓖䓗䓘䓙䓚䓛䓜䓝䓞䓟䓠䓡䓢䓣䓤䓥䓦䓧䓨䓩䓪䓫䓬䓭䓮䓯䓰䓱䓲䓳䓴䓵䓶䓷䓸䓹䓺䓻䓼䓽䓾䓿",
       "䖀䖁䖂䖃䖄䖅䖆䖇䖈䖉䖊䖋䖌䖍䖎䖏䖐䖑䖒䖓䖔䖕䖖䖗䖘䖙䖚䖛䖜䖝䖞䖟䖠䖡䖢䖣䖤䖥䖦䖧䖨䖩䖪䖫䖬䖭䖮䖯䖰䖱䖲䖳䖴䖵䖶䖷䖸䖹䖺䖻䖼䖽䖾䖿䗀䗁䗂䗃䗄䗅䗆䗇䗈䗉䗊䗋䗌䗍䗎䗏䗐䗑䗒䗓䗔䗕䗖䗗䗘䗙䗚䗛䗜䗝䗞䗟䗠䗡䗢䗣䗤䗥䗦䗧䗨䗩䗪䗫䗬䗭䗮䗯䗰䗱䗲䗳䗴䗵䗶䗷䗸䗹䗺䗻䗼䗽䗾䗿",
       "䚀䚁䚂䚃䚄䚅䚆䚇䚈䚉䚊䚋䚌䚍䚎䚏䚐䚑䚒䚓䚔䚕䚖䚗䚘䚙䚚䚛䚜䚝䚞䚟䚠䚡䚢䚣䚤䚥䚦䚧䚨䚩䚪䚫䚬䚭䚮䚯䚰䚱䚲䚳䚴䚵䚶䚷䚸䚹䚺䚻䚼䚽䚾䚿䛀䛁䛂䛃䛄䛅䛆䛇䛈䛉䛊䛋䛌䛍䛎䛏䛐䛑䛒䛓䛔䛕䛖䛗䛘䛙䛚䛛䛜䛝䛞䛟䛠䛡䛢䛣䛤䛥䛦䛧䛨䛩䛪䛫䛬䛭䛮䛯䛰䛱䛲䛳䛴䛵䛶䛷䛸䛹䛺䛻䛼䛽䛾䛿",
       "䞀䞁䞂䞃䞄䞅䞆䞇䞈䞉䞊䞋䞌䞍䞎䞏䞐䞑䞒䞓䞔䞕䞖䞗䞘䞙䞚䞛䞜䞝䞞䞟䞠䞡䞢䞣䞤䞥䞦䞧䞨䞩䞪䞫䞬䞭䞮䞯䞰䞱䞲䞳䞴䞵䞶䞷䞸䞹䞺䞻䞼䞽䞾䞿䟀䟁䟂䟃䟄䟅䟆䟇䟈䟉䟊䟋䟌䟍䟎䟏䟐䟑䟒䟓䟔䟕䟖䟗䟘䟙䟚䟛䟜䟝䟞䟟䟠䟡䟢䟣䟤䟥䟦䟧䟨䟩䟪䟫䟬䟭䟮䟯䟰䟱䟲䟳䟴䟵䟶䟷䟸䟹䟺䟻䟼䟽䟾䟿",
       "䢀䢁䢂䢃䢄䢅䢆䢇䢈䢉䢊䢋䢌䢍䢎䢏䢐䢑䢒䢓䢔䢕䢖䢗䢘䢙䢚䢛䢜䢝䢞䢟䢠䢡䢢䢣䢤䢥䢦䢧䢨䢩䢪䢫䢬䢭䢮䢯䢰䢱䢲䢳䢴䢵䢶䢷䢸䢹䢺䢻䢼䢽䢾䢿䣀䣁䣂䣃䣄䣅䣆䣇䣈䣉䣊䣋䣌䣍䣎䣏䣐䣑䣒䣓䣔䣕䣖䣗䣘䣙䣚䣛䣜䣝䣞䣟䣠䣡䣢䣣䣤䣥䣦䣧䣨䣩䣪䣫䣬䣭䣮䣯䣰䣱䣲䣳䣴䣵䣶䣷䣸䣹䣺䣻䣼䣽䣾䣿",
       "䦀䦁䦂䦃䦄䦅䦆䦇䦈䦉䦊䦋䦌䦍䦎䦏䦐䦑䦒䦓䦔䦕䦖䦗䦘䦙䦚䦛䦜䦝䦞䦟䦠䦡䦢䦣䦤䦥䦦䦧䦨䦩䦪䦫䦬䦭䦮䦯䦰䦱䦲䦳䦴䦵䦶䦷䦸䦹䦺䦻䦼䦽䦾䦿䧀䧁䧂䧃䧄䧅䧆䧇䧈䧉䧊䧋䧌䧍䧎䧏䧐䧑䧒䧓䧔䧕䧖䧗䧘䧙䧚䧛䧜䧝䧞䧟䧠䧡䧢䧣䧤䧥䧦䧧䧨䧩䧪䧫䧬䧭䧮䧯䧰䧱䧲䧳䧴䧵䧶䧷䧸䧹䧺䧻䧼䧽䧾䧿",
       "䪀䪁䪂䪃䪄䪅䪆䪇䪈䪉䪊䪋䪌䪍䪎䪏䪐䪑䪒䪓䪔䪕䪖䪗䪘䪙䪚䪛䪜䪝䪞䪟䪠䪡䪢䪣䪤䪥䪦䪧䪨䪩䪪䪫䪬䪭䪮䪯䪰䪱䪲䪳䪴䪵䪶䪷䪸䪹䪺䪻䪼䪽䪾䪿䫀䫁䫂䫃䫄䫅䫆䫇䫈䫉䫊䫋䫌䫍䫎䫏䫐䫑䫒䫓䫔䫕䫖䫗䫘䫙䫚䫛䫜䫝䫞䫟䫠䫡䫢䫣䫤䫥䫦䫧䫨䫩䫪䫫䫬䫭䫮䫯䫰䫱䫲䫳䫴䫵䫶䫷䫸䫹䫺䫻䫼䫽䫾䫿",
       "䮀䮁䮂䮃䮄䮅䮆䮇䮈䮉䮊䮋䮌䮍䮎䮏䮐䮑䮒䮓䮔䮕䮖䮗䮘䮙䮚䮛䮜䮝䮞䮟䮠䮡䮢䮣䮤䮥䮦䮧䮨䮩䮪䮫䮬䮭䮮䮯䮰䮱䮲䮳䮴䮵䮶䮷䮸䮹䮺䮻䮼䮽䮾䮿䯀䯁䯂䯃䯄䯅䯆䯇䯈䯉䯊䯋䯌䯍䯎䯏䯐䯑䯒䯓䯔䯕䯖䯗䯘䯙䯚䯛䯜䯝䯞䯟䯠䯡䯢䯣䯤䯥䯦䯧䯨䯩䯪䯫䯬䯭䯮䯯䯰䯱䯲䯳䯴䯵䯶䯷䯸䯹䯺䯻䯼䯽䯾䯿",
       "䲀䲁䲂䲃䲄䲅䲆䲇䲈䲉䲊䲋䲌䲍䲎䲏䲐䲑䲒䲓䲔䲕䲖䲗䲘䲙䲚䲛䲜䲝䲞䲟䲠䲡䲢䲣䲤䲥䲦䲧䲨䲩䲪䲫䲬䲭䲮䲯䲰䲱䲲䲳䲴䲵䲶䲷䲸䲹䲺䲻䲼䲽䲾䲿䳀䳁䳂䳃䳄䳅䳆䳇䳈䳉䳊䳋䳌䳍䳎䳏䳐䳑䳒䳓䳔䳕䳖䳗䳘䳙䳚䳛䳜䳝䳞䳟䳠䳡䳢䳣䳤䳥䳦䳧䳨䳩䳪䳫䳬䳭䳮䳯䳰䳱䳲䳳䳴䳵䳶䳷䳸䳹䳺䳻䳼䳽䳾䳿",
       "䶀䶁䶂䶃䶄䶅䶆䶇䶈䶉䶊䶋䶌䶍䶎䶏䶐䶑䶒䶓䶔䶕䶖䶗䶘䶙䶚䶛䶜䶝䶞䶟䶠䶡䶢䶣䶤䶥䶦䶧䶨䶩䶪䶫䶬䶭䶮䶯䶰䶱䶲䶳䶴䶵䶶䶷䶸䶹䶺䶻䶼䶽䶾䶿䷀䷁䷂䷃䷄䷅䷆䷇䷈䷉䷊䷋䷌䷍䷎䷏䷐䷑䷒䷓䷔䷕䷖䷗䷘䷙䷚䷛䷜䷝䷞䷟䷠䷡䷢䷣䷤䷥䷦䷧䷨䷩䷪䷫䷬䷭䷮䷯䷰䷱䷲䷳䷴䷵䷶䷷䷸䷹䷺䷻䷼䷽䷾䷿",
       "亀亁亂亃亄亅了亇予争亊事二亍于亏亐云互亓五井亖亗亘亙亚些亜亝亞亟亠亡亢亣交亥亦产亨亩亪享京亭亮亯亰亱亲亳亴亵亶亷亸亹人亻亼亽亾亿什仁仂仃仄仅仆仇仈仉今介仌仍从仏仐仑仒仓仔仕他仗付仙仚仛仜仝仞仟仠仡仢代令以仦仧仨仩仪仫们仭仮仯仰仱仲仳仴仵件价仸仹仺任仼份仾仿",
       "侀侁侂侃侄侅來侇侈侉侊例侌侍侎侏侐侑侒侓侔侕侖侗侘侙侚供侜依侞侟侠価侢侣侤侥侦侧侨侩侪侫侬侭侮侯侰侱侲侳侴侵侶侷侸侹侺侻侼侽侾便俀俁係促俄俅俆俇俈俉俊俋俌俍俎俏俐俑俒俓俔俕俖俗俘俙俚俛俜保俞俟俠信俢俣俤俥俦俧俨俩俪俫俬俭修俯俰俱俲俳俴俵俶俷俸俹俺俻俼俽俾俿",
       "傀傁傂傃傄傅傆傇傈傉傊傋傌傍傎傏傐傑傒傓傔傕傖傗傘備傚傛傜傝傞傟傠傡傢傣傤傥傦傧储傩傪傫催傭傮傯傰傱傲傳傴債傶傷傸傹傺傻傼傽傾傿僀僁僂僃僄僅僆僇僈僉僊僋僌働僎像僐僑僒僓僔僕僖僗僘僙僚僛僜僝僞僟僠僡僢僣僤僥僦僧僨僩僪僫僬僭僮僯僰僱僲僳僴僵僶僷僸價僺僻僼僽僾僿",
       "冀冁冂冃冄内円冇冈冉冊冋册再冎冏冐冑冒冓冔冕冖冗冘写冚军农冝冞冟冠冡冢冣冤冥冦冧冨冩冪冫冬冭冮冯冰冱冲决冴况冶冷冸冹冺冻冼冽冾冿净凁凂凃凄凅准凇凈凉凊凋凌凍凎减凐凑凒凓凔凕凖凗凘凙凚凛凜凝凞凟几凡凢凣凤凥処凧凨凩凪凫凬凭凮凯凰凱凲凳凴凵凶凷凸凹出击凼函凾凿",
       "劀劁劂劃劄劅劆劇劈劉劊劋劌劍劎劏劐劑劒劓劔劕劖劗劘劙劚力劜劝办功加务劢劣劤劥劦劧动助努劫劬劭劮劯劰励劲劳労劵劶劷劸効劺劻劼劽劾势勀勁勂勃勄勅勆勇勈勉勊勋勌勍勎勏勐勑勒勓勔動勖勗勘務勚勛勜勝勞募勠勡勢勣勤勥勦勧勨勩勪勫勬勭勮勯勰勱勲勳勴勵勶勷勸勹勺勻勼勽勾勿",
       "厀厁厂厃厄厅历厇厈厉厊压厌厍厎厏厐厑厒厓厔厕厖厗厘厙厚厛厜厝厞原厠厡厢厣厤厥厦厧厨厩厪厫厬厭厮厯厰厱厲厳厴厵厶厷厸厹厺去厼厽厾县叀叁参參叄叅叆叇又叉及友双反収叏叐发叒叓叔叕取受变叙叚叛叜叝叞叟叠叡叢口古句另叧叨叩只叫召叭叮可台叱史右叴叵叶号司叹叺叻叼叽叾叿",
       "咀咁咂咃咄咅咆咇咈咉咊咋和咍咎咏咐咑咒咓咔咕咖咗咘咙咚咛咜咝咞咟咠咡咢咣咤咥咦咧咨咩咪咫咬咭咮咯咰咱咲咳咴咵咶咷咸咹咺咻咼咽咾咿哀品哂哃哄哅哆哇哈哉哊哋哌响哎哏哐哑哒哓哔哕哖哗哘哙哚哛哜哝哞哟哠員哢哣哤哥哦哧哨哩哪哫哬哭哮哯哰哱哲哳哴哵哶哷哸哹哺哻哼哽哾哿",
       "喀喁喂喃善喅喆喇喈喉喊喋喌喍喎喏喐喑喒喓喔喕喖喗喘喙喚喛喜喝喞喟喠喡喢喣喤喥喦喧喨喩喪喫喬喭單喯喰喱喲喳喴喵営喷喸喹喺喻喼喽喾喿嗀嗁嗂嗃嗄嗅嗆嗇嗈嗉嗊嗋嗌嗍嗎嗏嗐嗑嗒嗓嗔嗕嗖嗗嗘嗙嗚嗛嗜嗝嗞嗟嗠嗡嗢嗣嗤嗥嗦嗧嗨嗩嗪嗫嗬嗭嗮嗯嗰嗱嗲嗳嗴嗵嗶嗷嗸嗹嗺嗻嗼嗽嗾嗿",
       "嚀嚁嚂嚃嚄嚅嚆嚇嚈嚉嚊嚋嚌嚍嚎嚏嚐嚑嚒嚓嚔嚕嚖嚗嚘嚙嚚嚛嚜嚝嚞嚟嚠嚡嚢嚣嚤嚥嚦嚧嚨嚩嚪嚫嚬嚭嚮嚯嚰嚱嚲嚳嚴嚵嚶嚷嚸嚹嚺嚻嚼嚽嚾嚿囀囁囂囃囄囅囆囇囈囉囊囋囌囍囎囏囐囑囒囓囔囕囖囗囘囙囚四囜囝回囟因囡团団囤囥囦囧囨囩囪囫囬园囮囯困囱囲図围囵囶囷囸囹固囻囼国图囿",
       "垀垁垂垃垄垅垆垇垈垉垊型垌垍垎垏垐垑垒垓垔垕垖垗垘垙垚垛垜垝垞垟垠垡垢垣垤垥垦垧垨垩垪垫垬垭垮垯垰垱垲垳垴垵垶垷垸垹垺垻垼垽垾垿埀埁埂埃埄埅埆埇埈埉埊埋埌埍城埏埐埑埒埓埔埕埖埗埘埙埚埛埜埝埞域埠埡埢埣埤埥埦埧埨埩埪埫埬埭埮埯埰埱埲埳埴埵埶執埸培基埻埼埽埾埿",
       "墀墁墂境墄墅墆墇墈墉墊墋墌墍墎墏墐墑墒墓墔墕墖増墘墙墚墛墜墝增墟墠墡墢墣墤墥墦墧墨墩墪墫墬墭墮墯墰墱墲墳墴墵墶墷墸墹墺墻墼墽墾墿壀壁壂壃壄壅壆壇壈壉壊壋壌壍壎壏壐壑壒壓壔壕壖壗壘壙壚壛壜壝壞壟壠壡壢壣壤壥壦壧壨壩壪士壬壭壮壯声壱売壳壴壵壶壷壸壹壺壻壼壽壾壿",
       "妀妁如妃妄妅妆妇妈妉妊妋妌妍妎妏妐妑妒妓妔妕妖妗妘妙妚妛妜妝妞妟妠妡妢妣妤妥妦妧妨妩妪妫妬妭妮妯妰妱妲妳妴妵妶妷妸妹妺妻妼妽妾妿姀姁姂姃姄姅姆姇姈姉姊始姌姍姎姏姐姑姒姓委姕姖姗姘姙姚姛姜姝姞姟姠姡姢姣姤姥姦姧姨姩姪姫姬姭姮姯姰姱姲姳姴姵姶姷姸姹姺姻姼姽姾姿",
       "媀媁媂媃媄媅媆媇媈媉媊媋媌媍媎媏媐媑媒媓媔媕媖媗媘媙媚媛媜媝媞媟媠媡媢媣媤媥媦媧媨媩媪媫媬媭媮媯媰媱媲媳媴媵媶媷媸媹媺媻媼媽媾媿嫀嫁嫂嫃嫄嫅嫆嫇嫈嫉嫊嫋嫌嫍嫎嫏嫐嫑嫒嫓嫔嫕嫖嫗嫘嫙嫚嫛嫜嫝嫞嫟嫠嫡嫢嫣嫤嫥嫦嫧嫨嫩嫪嫫嫬嫭嫮嫯嫰嫱嫲嫳嫴嫵嫶嫷嫸嫹嫺嫻嫼嫽嫾嫿",
       "宀宁宂它宄宅宆宇守安宊宋完宍宎宏宐宑宒宓宔宕宖宗官宙定宛宜宝实実宠审客宣室宥宦宧宨宩宪宫宬宭宮宯宰宱宲害宴宵家宷宸容宺宻宼宽宾宿寀寁寂寃寄寅密寇寈寉寊寋富寍寎寏寐寑寒寓寔寕寖寗寘寙寚寛寜寝寞察寠寡寢寣寤寥實寧寨審寪寫寬寭寮寯寰寱寲寳寴寵寶寷寸对寺寻导寽対寿",
       "岀岁岂岃岄岅岆岇岈岉岊岋岌岍岎岏岐岑岒岓岔岕岖岗岘岙岚岛岜岝岞岟岠岡岢岣岤岥岦岧岨岩岪岫岬岭岮岯岰岱岲岳岴岵岶岷岸岹岺岻岼岽岾岿峀峁峂峃峄峅峆峇峈峉峊峋峌峍峎峏峐峑峒峓峔峕峖峗峘峙峚峛峜峝峞峟峠峡峢峣峤峥峦峧峨峩峪峫峬峭峮峯峰峱峲峳峴峵島峷峸峹峺峻峼峽峾峿",
       "嶀嶁嶂嶃嶄嶅嶆嶇嶈嶉嶊嶋嶌嶍嶎嶏嶐嶑嶒嶓嶔嶕嶖嶗嶘嶙嶚嶛嶜嶝嶞嶟嶠嶡嶢嶣嶤嶥嶦嶧嶨嶩嶪嶫嶬嶭嶮嶯嶰嶱嶲嶳嶴嶵嶶嶷嶸嶹嶺嶻嶼嶽嶾嶿巀巁巂巃巄巅巆巇巈巉巊巋巌巍巎巏巐巑巒巓巔巕巖巗巘巙巚巛巜川州巟巠巡巢巣巤工左巧巨巩巪巫巬巭差巯巰己已巳巴巵巶巷巸巹巺巻巼巽巾巿",
       "庀庁庂広庄庅庆庇庈庉床庋庌庍庎序庐庑庒库应底庖店庘庙庚庛府庝庞废庠庡庢庣庤庥度座庨庩庪庫庬庭庮庯庰庱庲庳庴庵庶康庸庹庺庻庼庽庾庿廀廁廂廃廄廅廆廇廈廉廊廋廌廍廎廏廐廑廒廓廔廕廖廗廘廙廚廛廜廝廞廟廠廡廢廣廤廥廦廧廨廩廪廫廬廭廮廯廰廱廲廳廴廵延廷廸廹建廻廼廽廾廿",
       "往征徂徃径待徆徇很徉徊律後徍徎徏徐徑徒従徔徕徖得徘徙徚徛徜徝從徟徠御徢徣徤徥徦徧徨復循徫徬徭微徯徰徱徲徳徴徵徶德徸徹徺徻徼徽徾徿忀忁忂心忄必忆忇忈忉忊忋忌忍忎忏忐忑忒忓忔忕忖志忘忙忚忛応忝忞忟忠忡忢忣忤忥忦忧忨忩忪快忬忭忮忯忰忱忲忳忴念忶忷忸忹忺忻忼忽忾忿",
       "悀悁悂悃悄悅悆悇悈悉悊悋悌悍悎悏悐悑悒悓悔悕悖悗悘悙悚悛悜悝悞悟悠悡悢患悤悥悦悧您悩悪悫悬悭悮悯悰悱悲悳悴悵悶悷悸悹悺悻悼悽悾悿惀惁惂惃惄情惆惇惈惉惊惋惌惍惎惏惐惑惒惓惔惕惖惗惘惙惚惛惜惝惞惟惠惡惢惣惤惥惦惧惨惩惪惫惬惭惮惯惰惱惲想惴惵惶惷惸惹惺惻惼惽惾惿",
       "憀憁憂憃憄憅憆憇憈憉憊憋憌憍憎憏憐憑憒憓憔憕憖憗憘憙憚憛憜憝憞憟憠憡憢憣憤憥憦憧憨憩憪憫憬憭憮憯憰憱憲憳憴憵憶憷憸憹憺憻憼憽憾憿懀懁懂懃懄懅懆懇懈應懊懋懌懍懎懏懐懑懒懓懔懕懖懗懘懙懚懛懜懝懞懟懠懡懢懣懤懥懦懧懨懩懪懫懬懭懮懯懰懱懲懳懴懵懶懷懸懹懺懻懼懽懾懿",
       "技抁抂抃抄抅抆抇抈抉把抋抌抍抎抏抐抑抒抓抔投抖抗折抙抚抛抜抝択抟抠抡抢抣护报抦抧抨抩抪披抬抭抮抯抰抱抲抳抴抵抶抷抸抹抺抻押抽抾抿拀拁拂拃拄担拆拇拈拉拊拋拌拍拎拏拐拑拒拓拔拕拖拗拘拙拚招拜拝拞拟拠拡拢拣拤拥拦拧拨择拪拫括拭拮拯拰拱拲拳拴拵拶拷拸拹拺拻拼拽拾拿",
       "掀掁掂掃掄掅掆掇授掉掊掋掌掍掎掏掐掑排掓掔掕掖掗掘掙掚掛掜掝掞掟掠採探掣掤接掦控推掩措掫掬掭掮掯掰掱掲掳掴掵掶掷掸掹掺掻掼掽掾掿揀揁揂揃揄揅揆揇揈揉揊揋揌揍揎描提揑插揓揔揕揖揗揘揙揚換揜揝揞揟揠握揢揣揤揥揦揧揨揩揪揫揬揭揮揯揰揱揲揳援揵揶揷揸揹揺揻揼揽揾揿",
       "撀撁撂撃撄撅撆撇撈撉撊撋撌撍撎撏撐撑撒撓撔撕撖撗撘撙撚撛撜撝撞撟撠撡撢撣撤撥撦撧撨撩撪撫撬播撮撯撰撱撲撳撴撵撶撷撸撹撺撻撼撽撾撿擀擁擂擃擄擅擆擇擈擉擊擋擌操擎擏擐擑擒擓擔擕擖擗擘擙據擛擜擝擞擟擠擡擢擣擤擥擦擧擨擩擪擫擬擭擮擯擰擱擲擳擴擵擶擷擸擹擺擻擼擽擾擿",
       "斀斁斂斃斄斅斆文斈斉斊斋斌斍斎斏斐斑斒斓斔斕斖斗斘料斚斛斜斝斞斟斠斡斢斣斤斥斦斧斨斩斪斫斬断斮斯新斱斲斳斴斵斶斷斸方斺斻於施斾斿旀旁旂旃旄旅旆旇旈旉旊旋旌旍旎族旐旑旒旓旔旕旖旗旘旙旚旛旜旝旞旟无旡既旣旤日旦旧旨早旪旫旬旭旮旯旰旱旲旳旴旵时旷旸旹旺旻旼旽旾旿",
       "暀暁暂暃暄暅暆暇暈暉暊暋暌暍暎暏暐暑暒暓暔暕暖暗暘暙暚暛暜暝暞暟暠暡暢暣暤暥暦暧暨暩暪暫暬暭暮暯暰暱暲暳暴暵暶暷暸暹暺暻暼暽暾暿曀曁曂曃曄曅曆曇曈曉曊曋曌曍曎曏曐曑曒曓曔曕曖曗曘曙曚曛曜曝曞曟曠曡曢曣曤曥曦曧曨曩曪曫曬曭曮曯曰曱曲曳更曵曶曷書曹曺曻曼曽曾替",
       "枀极枂枃构枅枆枇枈枉枊枋枌枍枎枏析枑枒枓枔枕枖林枘枙枚枛果枝枞枟枠枡枢枣枤枥枦枧枨枩枪枫枬枭枮枯枰枱枲枳枴枵架枷枸枹枺枻枼枽枾枿柀柁柂柃柄柅柆柇柈柉柊柋柌柍柎柏某柑柒染柔柕柖柗柘柙柚柛柜柝柞柟柠柡柢柣柤查柦柧柨柩柪柫柬柭柮柯柰柱柲柳柴柵柶柷柸柹柺査柼柽柾柿",
       "梀梁梂梃梄梅梆梇梈梉梊梋梌梍梎梏梐梑梒梓梔梕梖梗梘梙梚梛梜條梞梟梠梡梢梣梤梥梦梧梨梩梪梫梬梭梮梯械梱梲梳梴梵梶梷梸梹梺梻梼梽梾梿检棁棂棃棄棅棆棇棈棉棊棋棌棍棎棏棐棑棒棓棔棕棖棗棘棙棚棛棜棝棞棟棠棡棢棣棤棥棦棧棨棩棪棫棬棭森棯棰棱棲棳棴棵棶棷棸棹棺棻棼棽棾棿",
       "榀榁概榃榄榅榆榇榈榉榊榋榌榍榎榏榐榑榒榓榔榕榖榗榘榙榚榛榜榝榞榟榠榡榢榣榤榥榦榧榨榩榪榫榬榭榮榯榰榱榲榳榴榵榶榷榸榹榺榻榼榽榾榿槀槁槂槃槄槅槆槇槈槉槊構槌槍槎槏槐槑槒槓槔槕槖槗様槙槚槛槜槝槞槟槠槡槢槣槤槥槦槧槨槩槪槫槬槭槮槯槰槱槲槳槴槵槶槷槸槹槺槻槼槽槾槿",
       "檀檁檂檃檄檅檆檇檈檉檊檋檌檍檎檏檐檑檒檓檔檕檖檗檘檙檚檛檜檝檞檟檠檡檢檣檤檥檦檧檨檩檪檫檬檭檮檯檰檱檲檳檴檵檶檷檸檹檺檻檼檽檾檿櫀櫁櫂櫃櫄櫅櫆櫇櫈櫉櫊櫋櫌櫍櫎櫏櫐櫑櫒櫓櫔櫕櫖櫗櫘櫙櫚櫛櫜櫝櫞櫟櫠櫡櫢櫣櫤櫥櫦櫧櫨櫩櫪櫫櫬櫭櫮櫯櫰櫱櫲櫳櫴櫵櫶櫷櫸櫹櫺櫻櫼櫽櫾櫿",
       "殀殁殂殃殄殅殆殇殈殉殊残殌殍殎殏殐殑殒殓殔殕殖殗殘殙殚殛殜殝殞殟殠殡殢殣殤殥殦殧殨殩殪殫殬殭殮殯殰殱殲殳殴段殶殷殸殹殺殻殼殽殾殿毀毁毂毃毄毅毆毇毈毉毊毋毌母毎每毐毑毒毓比毕毖毗毘毙毚毛毜毝毞毟毠毡毢毣毤毥毦毧毨毩毪毫毬毭毮毯毰毱毲毳毴毵毶毷毸毹毺毻毼毽毾毿",
       "沀沁沂沃沄沅沆沇沈沉沊沋沌沍沎沏沐沑沒沓沔沕沖沗沘沙沚沛沜沝沞沟沠没沢沣沤沥沦沧沨沩沪沫沬沭沮沯沰沱沲河沴沵沶沷沸油沺治沼沽沾沿泀況泂泃泄泅泆泇泈泉泊泋泌泍泎泏泐泑泒泓泔法泖泗泘泙泚泛泜泝泞泟泠泡波泣泤泥泦泧注泩泪泫泬泭泮泯泰泱泲泳泴泵泶泷泸泹泺泻泼泽泾泿",
       "涀涁涂涃涄涅涆涇消涉涊涋涌涍涎涏涐涑涒涓涔涕涖涗涘涙涚涛涜涝涞涟涠涡涢涣涤涥润涧涨涩涪涫涬涭涮涯涰涱液涳涴涵涶涷涸涹涺涻涼涽涾涿淀淁淂淃淄淅淆淇淈淉淊淋淌淍淎淏淐淑淒淓淔淕淖淗淘淙淚淛淜淝淞淟淠淡淢淣淤淥淦淧淨淩淪淫淬淭淮淯淰深淲淳淴淵淶混淸淹淺添淼淽淾淿",
       "満溁溂溃溄溅溆溇溈溉溊溋溌溍溎溏源溑溒溓溔溕準溗溘溙溚溛溜溝溞溟溠溡溢溣溤溥溦溧溨溩溪溫溬溭溮溯溰溱溲溳溴溵溶溷溸溹溺溻溼溽溾溿滀滁滂滃滄滅滆滇滈滉滊滋滌滍滎滏滐滑滒滓滔滕滖滗滘滙滚滛滜滝滞滟滠满滢滣滤滥滦滧滨滩滪滫滬滭滮滯滰滱滲滳滴滵滶滷滸滹滺滻滼滽滾滿",
       "澀澁澂澃澄澅澆澇澈澉澊澋澌澍澎澏澐澑澒澓澔澕澖澗澘澙澚澛澜澝澞澟澠澡澢澣澤澥澦澧澨澩澪澫澬澭澮澯澰澱澲澳澴澵澶澷澸澹澺澻澼澽澾澿激濁濂濃濄濅濆濇濈濉濊濋濌濍濎濏濐濑濒濓濔濕濖濗濘濙濚濛濜濝濞濟濠濡濢濣濤濥濦濧濨濩濪濫濬濭濮濯濰濱濲濳濴濵濶濷濸濹濺濻濼濽濾濿",
       "炀炁炂炃炄炅炆炇炈炉炊炋炌炍炎炏炐炑炒炓炔炕炖炗炘炙炚炛炜炝炞炟炠炡炢炣炤炥炦炧炨炩炪炫炬炭炮炯炰炱炲炳炴炵炶炷炸点為炻炼炽炾炿烀烁烂烃烄烅烆烇烈烉烊烋烌烍烎烏烐烑烒烓烔烕烖烗烘烙烚烛烜烝烞烟烠烡烢烣烤烥烦烧烨烩烪烫烬热烮烯烰烱烲烳烴烵烶烷烸烹烺烻烼烽烾烿",
       "熀熁熂熃熄熅熆熇熈熉熊熋熌熍熎熏熐熑熒熓熔熕熖熗熘熙熚熛熜熝熞熟熠熡熢熣熤熥熦熧熨熩熪熫熬熭熮熯熰熱熲熳熴熵熶熷熸熹熺熻熼熽熾熿燀燁燂燃燄燅燆燇燈燉燊燋燌燍燎燏燐燑燒燓燔燕燖燗燘燙燚燛燜燝燞營燠燡燢燣燤燥燦燧燨燩燪燫燬燭燮燯燰燱燲燳燴燵燶燷燸燹燺燻燼燽燾燿",
       "犀犁犂犃犄犅犆犇犈犉犊犋犌犍犎犏犐犑犒犓犔犕犖犗犘犙犚犛犜犝犞犟犠犡犢犣犤犥犦犧犨犩犪犫犬犭犮犯犰犱犲犳犴犵状犷犸犹犺犻犼犽犾犿狀狁狂狃狄狅狆狇狈狉狊狋狌狍狎狏狐狑狒狓狔狕狖狗狘狙狚狛狜狝狞狟狠狡狢狣狤狥狦狧狨狩狪狫独狭狮狯狰狱狲狳狴狵狶狷狸狹狺狻狼狽狾狿",
       "玀玁玂玃玄玅玆率玈玉玊王玌玍玎玏玐玑玒玓玔玕玖玗玘玙玚玛玜玝玞玟玠玡玢玣玤玥玦玧玨玩玪玫玬玭玮环现玱玲玳玴玵玶玷玸玹玺玻玼玽玾玿珀珁珂珃珄珅珆珇珈珉珊珋珌珍珎珏珐珑珒珓珔珕珖珗珘珙珚珛珜珝珞珟珠珡珢珣珤珥珦珧珨珩珪珫珬班珮珯珰珱珲珳珴珵珶珷珸珹珺珻珼珽現珿",
       "璀璁璂璃璄璅璆璇璈璉璊璋璌璍璎璏璐璑璒璓璔璕璖璗璘璙璚璛璜璝璞璟璠璡璢璣璤璥璦璧璨璩璪璫璬璭璮璯環璱璲璳璴璵璶璷璸璹璺璻璼璽璾璿瓀瓁瓂瓃瓄瓅瓆瓇瓈瓉瓊瓋瓌瓍瓎瓏瓐瓑瓒瓓瓔瓕瓖瓗瓘瓙瓚瓛瓜瓝瓞瓟瓠瓡瓢瓣瓤瓥瓦瓧瓨瓩瓪瓫瓬瓭瓮瓯瓰瓱瓲瓳瓴瓵瓶瓷瓸瓹瓺瓻瓼瓽瓾瓿",
       "疀疁疂疃疄疅疆疇疈疉疊疋疌疍疎疏疐疑疒疓疔疕疖疗疘疙疚疛疜疝疞疟疠疡疢疣疤疥疦疧疨疩疪疫疬疭疮疯疰疱疲疳疴疵疶疷疸疹疺疻疼疽疾疿痀痁痂痃痄病痆症痈痉痊痋痌痍痎痏痐痑痒痓痔痕痖痗痘痙痚痛痜痝痞痟痠痡痢痣痤痥痦痧痨痩痪痫痬痭痮痯痰痱痲痳痴痵痶痷痸痹痺痻痼痽痾痿",
       "皀皁皂皃的皅皆皇皈皉皊皋皌皍皎皏皐皑皒皓皔皕皖皗皘皙皚皛皜皝皞皟皠皡皢皣皤皥皦皧皨皩皪皫皬皭皮皯皰皱皲皳皴皵皶皷皸皹皺皻皼皽皾皿盀盁盂盃盄盅盆盇盈盉益盋盌盍盎盏盐监盒盓盔盕盖盗盘盙盚盛盜盝盞盟盠盡盢監盤盥盦盧盨盩盪盫盬盭目盯盰盱盲盳直盵盶盷相盹盺盻盼盽盾盿",
       "瞀瞁瞂瞃瞄瞅瞆瞇瞈瞉瞊瞋瞌瞍瞎瞏瞐瞑瞒瞓瞔瞕瞖瞗瞘瞙瞚瞛瞜瞝瞞瞟瞠瞡瞢瞣瞤瞥瞦瞧瞨瞩瞪瞫瞬瞭瞮瞯瞰瞱瞲瞳瞴瞵瞶瞷瞸瞹瞺瞻瞼瞽瞾瞿矀矁矂矃矄矅矆矇矈矉矊矋矌矍矎矏矐矑矒矓矔矕矖矗矘矙矚矛矜矝矞矟矠矡矢矣矤知矦矧矨矩矪矫矬短矮矯矰矱矲石矴矵矶矷矸矹矺矻矼矽矾矿",
       "碀碁碂碃碄碅碆碇碈碉碊碋碌碍碎碏碐碑碒碓碔碕碖碗碘碙碚碛碜碝碞碟碠碡碢碣碤碥碦碧碨碩碪碫碬碭碮碯碰碱碲碳碴碵碶碷碸碹確碻碼碽碾碿磀磁磂磃磄磅磆磇磈磉磊磋磌磍磎磏磐磑磒磓磔磕磖磗磘磙磚磛磜磝磞磟磠磡磢磣磤磥磦磧磨磩磪磫磬磭磮磯磰磱磲磳磴磵磶磷磸磹磺磻磼磽磾磿",
       "禀禁禂禃禄禅禆禇禈禉禊禋禌禍禎福禐禑禒禓禔禕禖禗禘禙禚禛禜禝禞禟禠禡禢禣禤禥禦禧禨禩禪禫禬禭禮禯禰禱禲禳禴禵禶禷禸禹禺离禼禽禾禿秀私秂秃秄秅秆秇秈秉秊秋秌种秎秏秐科秒秓秔秕秖秗秘秙秚秛秜秝秞租秠秡秢秣秤秥秦秧秨秩秪秫秬秭秮积称秱秲秳秴秵秶秷秸秹秺移秼秽秾秿",
       "窀突窂窃窄窅窆窇窈窉窊窋窌窍窎窏窐窑窒窓窔窕窖窗窘窙窚窛窜窝窞窟窠窡窢窣窤窥窦窧窨窩窪窫窬窭窮窯窰窱窲窳窴窵窶窷窸窹窺窻窼窽窾窿竀竁竂竃竄竅竆竇竈竉竊立竌竍竎竏竐竑竒竓竔竕竖竗竘站竚竛竜竝竞竟章竡竢竣竤童竦竧竨竩竪竫竬竭竮端竰竱竲竳竴竵競竷竸竹竺竻竼竽竾竿",
       "简箁箂箃箄箅箆箇箈箉箊箋箌箍箎箏箐箑箒箓箔箕箖算箘箙箚箛箜箝箞箟箠管箢箣箤箥箦箧箨箩箪箫箬箭箮箯箰箱箲箳箴箵箶箷箸箹箺箻箼箽箾箿節篁篂篃範篅篆篇篈築篊篋篌篍篎篏篐篑篒篓篔篕篖篗篘篙篚篛篜篝篞篟篠篡篢篣篤篥篦篧篨篩篪篫篬篭篮篯篰篱篲篳篴篵篶篷篸篹篺篻篼篽篾篿",
       "粀粁粂粃粄粅粆粇粈粉粊粋粌粍粎粏粐粑粒粓粔粕粖粗粘粙粚粛粜粝粞粟粠粡粢粣粤粥粦粧粨粩粪粫粬粭粮粯粰粱粲粳粴粵粶粷粸粹粺粻粼粽精粿糀糁糂糃糄糅糆糇糈糉糊糋糌糍糎糏糐糑糒糓糔糕糖糗糘糙糚糛糜糝糞糟糠糡糢糣糤糥糦糧糨糩糪糫糬糭糮糯糰糱糲糳糴糵糶糷糸糹糺系糼糽糾糿",
       "綀綁綂綃綄綅綆綇綈綉綊綋綌綍綎綏綐綑綒經綔綕綖綗綘継続綛綜綝綞綟綠綡綢綣綤綥綦綧綨綩綪綫綬維綮綯綰綱網綳綴綵綶綷綸綹綺綻綼綽綾綿緀緁緂緃緄緅緆緇緈緉緊緋緌緍緎総緐緑緒緓緔緕緖緗緘緙線緛緜緝緞緟締緡緢緣緤緥緦緧編緩緪緫緬緭緮緯緰緱緲緳練緵緶緷緸緹緺緻緼緽緾緿",
       "纀纁纂纃纄纅纆纇纈纉纊纋續纍纎纏纐纑纒纓纔纕纖纗纘纙纚纛纜纝纞纟纠纡红纣纤纥约级纨纩纪纫纬纭纮纯纰纱纲纳纴纵纶纷纸纹纺纻纼纽纾线绀绁绂练组绅细织终绉绊绋绌绍绎经绐绑绒结绔绕绖绗绘给绚绛络绝绞统绠绡绢绣绤绥绦继绨绩绪绫绬续绮绯绰绱绲绳维绵绶绷绸绹绺绻综绽绾绿",
       "羀羁羂羃羄羅羆羇羈羉羊羋羌羍美羏羐羑羒羓羔羕羖羗羘羙羚羛羜羝羞羟羠羡羢羣群羥羦羧羨義羪羫羬羭羮羯羰羱羲羳羴羵羶羷羸羹羺羻羼羽羾羿翀翁翂翃翄翅翆翇翈翉翊翋翌翍翎翏翐翑習翓翔翕翖翗翘翙翚翛翜翝翞翟翠翡翢翣翤翥翦翧翨翩翪翫翬翭翮翯翰翱翲翳翴翵翶翷翸翹翺翻翼翽翾翿",
       "肀肁肂肃肄肅肆肇肈肉肊肋肌肍肎肏肐肑肒肓肔肕肖肗肘肙肚肛肜肝肞肟肠股肢肣肤肥肦肧肨肩肪肫肬肭肮肯肰肱育肳肴肵肶肷肸肹肺肻肼肽肾肿胀胁胂胃胄胅胆胇胈胉胊胋背胍胎胏胐胑胒胓胔胕胖胗胘胙胚胛胜胝胞胟胠胡胢胣胤胥胦胧胨胩胪胫胬胭胮胯胰胱胲胳胴胵胶胷胸胹胺胻胼能胾胿",
       "膀膁膂膃膄膅膆膇膈膉膊膋膌膍膎膏膐膑膒膓膔膕膖膗膘膙膚膛膜膝膞膟膠膡膢膣膤膥膦膧膨膩膪膫膬膭膮膯膰膱膲膳膴膵膶膷膸膹膺膻膼膽膾膿臀臁臂臃臄臅臆臇臈臉臊臋臌臍臎臏臐臑臒臓臔臕臖臗臘臙臚臛臜臝臞臟臠臡臢臣臤臥臦臧臨臩自臫臬臭臮臯臰臱臲至致臵臶臷臸臹臺臻臼臽臾臿",
       "芀芁节芃芄芅芆芇芈芉芊芋芌芍芎芏芐芑芒芓芔芕芖芗芘芙芚芛芜芝芞芟芠芡芢芣芤芥芦芧芨芩芪芫芬芭芮芯芰花芲芳芴芵芶芷芸芹芺芻芼芽芾芿苀苁苂苃苄苅苆苇苈苉苊苋苌苍苎苏苐苑苒苓苔苕苖苗苘苙苚苛苜苝苞苟苠苡苢苣苤若苦苧苨苩苪苫苬苭苮苯苰英苲苳苴苵苶苷苸苹苺苻苼苽苾苿",
       "莀莁莂莃莄莅莆莇莈莉莊莋莌莍莎莏莐莑莒莓莔莕莖莗莘莙莚莛莜莝莞莟莠莡莢莣莤莥莦莧莨莩莪莫莬莭莮莯莰莱莲莳莴莵莶获莸莹莺莻莼莽莾莿菀菁菂菃菄菅菆菇菈菉菊菋菌菍菎菏菐菑菒菓菔菕菖菗菘菙菚菛菜菝菞菟菠菡菢菣菤菥菦菧菨菩菪菫菬菭菮華菰菱菲菳菴菵菶菷菸菹菺菻菼菽菾菿",
       "蒀蒁蒂蒃蒄蒅蒆蒇蒈蒉蒊蒋蒌蒍蒎蒏蒐蒑蒒蒓蒔蒕蒖蒗蒘蒙蒚蒛蒜蒝蒞蒟蒠蒡蒢蒣蒤蒥蒦蒧蒨蒩蒪蒫蒬蒭蒮蒯蒰蒱蒲蒳蒴蒵蒶蒷蒸蒹蒺蒻蒼蒽蒾蒿蓀蓁蓂蓃蓄蓅蓆蓇蓈蓉蓊蓋蓌蓍蓎蓏蓐蓑蓒蓓蓔蓕蓖蓗蓘蓙蓚蓛蓜蓝蓞蓟蓠蓡蓢蓣蓤蓥蓦蓧蓨蓩蓪蓫蓬蓭蓮蓯蓰蓱蓲蓳蓴蓵蓶蓷蓸蓹蓺蓻蓼蓽蓾蓿",
       "薀薁薂薃薄薅薆薇薈薉薊薋薌薍薎薏薐薑薒薓薔薕薖薗薘薙薚薛薜薝薞薟薠薡薢薣薤薥薦薧薨薩薪薫薬薭薮薯薰薱薲薳薴薵薶薷薸薹薺薻薼薽薾薿藀藁藂藃藄藅藆藇藈藉藊藋藌藍藎藏藐藑藒藓藔藕藖藗藘藙藚藛藜藝藞藟藠藡藢藣藤藥藦藧藨藩藪藫藬藭藮藯藰藱藲藳藴藵藶藷藸藹藺藻藼藽藾藿",
       "蚀蚁蚂蚃蚄蚅蚆蚇蚈蚉蚊蚋蚌蚍蚎蚏蚐蚑蚒蚓蚔蚕蚖蚗蚘蚙蚚蚛蚜蚝蚞蚟蚠蚡蚢蚣蚤蚥蚦蚧蚨蚩蚪蚫蚬蚭蚮蚯蚰蚱蚲蚳蚴蚵蚶蚷蚸蚹蚺蚻蚼蚽蚾蚿蛀蛁蛂蛃蛄蛅蛆蛇蛈蛉蛊蛋蛌蛍蛎蛏蛐蛑蛒蛓蛔蛕蛖蛗蛘蛙蛚蛛蛜蛝蛞蛟蛠蛡蛢蛣蛤蛥蛦蛧蛨蛩蛪蛫蛬蛭蛮蛯蛰蛱蛲蛳蛴蛵蛶蛷蛸蛹蛺蛻蛼蛽蛾蛿",
       "螀螁螂螃螄螅螆螇螈螉螊螋螌融螎螏螐螑螒螓螔螕螖螗螘螙螚螛螜螝螞螟螠螡螢螣螤螥螦螧螨螩螪螫螬螭螮螯螰螱螲螳螴螵螶螷螸螹螺螻螼螽螾螿蟀蟁蟂蟃蟄蟅蟆蟇蟈蟉蟊蟋蟌蟍蟎蟏蟐蟑蟒蟓蟔蟕蟖蟗蟘蟙蟚蟛蟜蟝蟞蟟蟠蟡蟢蟣蟤蟥蟦蟧蟨蟩蟪蟫蟬蟭蟮蟯蟰蟱蟲蟳蟴蟵蟶蟷蟸蟹蟺蟻蟼蟽蟾蟿",
       "袀袁袂袃袄袅袆袇袈袉袊袋袌袍袎袏袐袑袒袓袔袕袖袗袘袙袚袛袜袝袞袟袠袡袢袣袤袥袦袧袨袩袪被袬袭袮袯袰袱袲袳袴袵袶袷袸袹袺袻袼袽袾袿裀裁裂裃裄装裆裇裈裉裊裋裌裍裎裏裐裑裒裓裔裕裖裗裘裙裚裛補裝裞裟裠裡裢裣裤裥裦裧裨裩裪裫裬裭裮裯裰裱裲裳裴裵裶裷裸裹裺裻裼製裾裿",
       "覀要覂覃覄覅覆覇覈覉覊見覌覍覎規覐覑覒覓覔覕視覗覘覙覚覛覜覝覞覟覠覡覢覣覤覥覦覧覨覩親覫覬覭覮覯覰覱覲観覴覵覶覷覸覹覺覻覼覽覾覿觀见观觃规觅视觇览觉觊觋觌觍觎觏觐觑角觓觔觕觖觗觘觙觚觛觜觝觞觟觠觡觢解觤觥触觧觨觩觪觫觬觭觮觯觰觱觲觳觴觵觶觷觸觹觺觻觼觽觾觿",
       "誀誁誂誃誄誅誆誇誈誉誊誋誌認誎誏誐誑誒誓誔誕誖誗誘誙誚誛誜誝語誟誠誡誢誣誤誥誦誧誨誩說誫説読誮誯誰誱課誳誴誵誶誷誸誹誺誻誼誽誾調諀諁諂諃諄諅諆談諈諉諊請諌諍諎諏諐諑諒諓諔諕論諗諘諙諚諛諜諝諞諟諠諡諢諣諤諥諦諧諨諩諪諫諬諭諮諯諰諱諲諳諴諵諶諷諸諹諺諻諼諽諾諿",
       "讀讁讂讃讄讅讆讇讈讉變讋讌讍讎讏讐讑讒讓讔讕讖讗讘讙讚讛讜讝讞讟讠计订讣认讥讦讧讨让讪讫讬训议讯记讱讲讳讴讵讶讷许讹论讻讼讽设访诀证诂诃评诅识诇诈诉诊诋诌词诎诏诐译诒诓诔试诖诗诘诙诚诛诜话诞诟诠诡询诣诤该详诧诨诩诪诫诬语诮误诰诱诲诳说诵诶请诸诹诺读诼诽课诿",
       "貀貁貂貃貄貅貆貇貈貉貊貋貌貍貎貏貐貑貒貓貔貕貖貗貘貙貚貛貜貝貞貟負財貢貣貤貥貦貧貨販貪貫責貭貮貯貰貱貲貳貴貵貶買貸貹貺費貼貽貾貿賀賁賂賃賄賅賆資賈賉賊賋賌賍賎賏賐賑賒賓賔賕賖賗賘賙賚賛賜賝賞賟賠賡賢賣賤賥賦賧賨賩質賫賬賭賮賯賰賱賲賳賴賵賶賷賸賹賺賻購賽賾賿",
       "趀趁趂趃趄超趆趇趈趉越趋趌趍趎趏趐趑趒趓趔趕趖趗趘趙趚趛趜趝趞趟趠趡趢趣趤趥趦趧趨趩趪趫趬趭趮趯趰趱趲足趴趵趶趷趸趹趺趻趼趽趾趿跀跁跂跃跄跅跆跇跈跉跊跋跌跍跎跏跐跑跒跓跔跕跖跗跘跙跚跛跜距跞跟跠跡跢跣跤跥跦跧跨跩跪跫跬跭跮路跰跱跲跳跴践跶跷跸跹跺跻跼跽跾跿",
       "躀躁躂躃躄躅躆躇躈躉躊躋躌躍躎躏躐躑躒躓躔躕躖躗躘躙躚躛躜躝躞躟躠躡躢躣躤躥躦躧躨躩躪身躬躭躮躯躰躱躲躳躴躵躶躷躸躹躺躻躼躽躾躿軀軁軂軃軄軅軆軇軈軉車軋軌軍軎軏軐軑軒軓軔軕軖軗軘軙軚軛軜軝軞軟軠軡転軣軤軥軦軧軨軩軪軫軬軭軮軯軰軱軲軳軴軵軶軷軸軹軺軻軼軽軾軿",
       "辀辁辂较辄辅辆辇辈辉辊辋辌辍辎辏辐辑辒输辔辕辖辗辘辙辚辛辜辝辞辟辠辡辢辣辤辥辦辧辨辩辪辫辬辭辮辯辰辱農辳辴辵辶辷辸边辺辻込辽达辿迀迁迂迃迄迅迆过迈迉迊迋迌迍迎迏运近迒迓返迕迖迗还这迚进远违连迟迠迡迢迣迤迥迦迧迨迩迪迫迬迭迮迯述迱迲迳迴迵迶迷迸迹迺迻迼追迾迿",
       "邀邁邂邃還邅邆邇邈邉邊邋邌邍邎邏邐邑邒邓邔邕邖邗邘邙邚邛邜邝邞邟邠邡邢那邤邥邦邧邨邩邪邫邬邭邮邯邰邱邲邳邴邵邶邷邸邹邺邻邼邽邾邿郀郁郂郃郄郅郆郇郈郉郊郋郌郍郎郏郐郑郒郓郔郕郖郗郘郙郚郛郜郝郞郟郠郡郢郣郤郥郦郧部郩郪郫郬郭郮郯郰郱郲郳郴郵郶郷郸郹郺郻郼都郾郿",
       "醀醁醂醃醄醅醆醇醈醉醊醋醌醍醎醏醐醑醒醓醔醕醖醗醘醙醚醛醜醝醞醟醠醡醢醣醤醥醦醧醨醩醪醫醬醭醮醯醰醱醲醳醴醵醶醷醸醹醺醻醼醽醾醿釀釁釂釃釄釅釆采釈釉释釋里重野量釐金釒釓釔釕釖釗釘釙釚釛釜針釞釟釠釡釢釣釤釥釦釧釨釩釪釫釬釭釮釯釰釱釲釳釴釵釶釷釸釹釺釻釼釽釾釿",
       "銀銁銂銃銄銅銆銇銈銉銊銋銌銍銎銏銐銑銒銓銔銕銖銗銘銙銚銛銜銝銞銟銠銡銢銣銤銥銦銧銨銩銪銫銬銭銮銯銰銱銲銳銴銵銶銷銸銹銺銻銼銽銾銿鋀鋁鋂鋃鋄鋅鋆鋇鋈鋉鋊鋋鋌鋍鋎鋏鋐鋑鋒鋓鋔鋕鋖鋗鋘鋙鋚鋛鋜鋝鋞鋟鋠鋡鋢鋣鋤鋥鋦鋧鋨鋩鋪鋫鋬鋭鋮鋯鋰鋱鋲鋳鋴鋵鋶鋷鋸鋹鋺鋻鋼鋽鋾鋿",
       "鎀鎁鎂鎃鎄鎅鎆鎇鎈鎉鎊鎋鎌鎍鎎鎏鎐鎑鎒鎓鎔鎕鎖鎗鎘鎙鎚鎛鎜鎝鎞鎟鎠鎡鎢鎣鎤鎥鎦鎧鎨鎩鎪鎫鎬鎭鎮鎯鎰鎱鎲鎳鎴鎵鎶鎷鎸鎹鎺鎻鎼鎽鎾鎿鏀鏁鏂鏃鏄鏅鏆鏇鏈鏉鏊鏋鏌鏍鏎鏏鏐鏑鏒鏓鏔鏕鏖鏗鏘鏙鏚鏛鏜鏝鏞鏟鏠鏡鏢鏣鏤鏥鏦鏧鏨鏩鏪鏫鏬鏭鏮鏯鏰鏱鏲鏳鏴鏵鏶鏷鏸鏹鏺鏻鏼鏽鏾鏿",
       "钀钁钂钃钄钅钆钇针钉钊钋钌钍钎钏钐钑钒钓钔钕钖钗钘钙钚钛钜钝钞钟钠钡钢钣钤钥钦钧钨钩钪钫钬钭钮钯钰钱钲钳钴钵钶钷钸钹钺钻钼钽钾钿铀铁铂铃铄铅铆铇铈铉铊铋铌铍铎铏铐铑铒铓铔铕铖铗铘铙铚铛铜铝铞铟铠铡铢铣铤铥铦铧铨铩铪铫铬铭铮铯铰铱铲铳铴铵银铷铸铹铺铻铼铽链铿",
       "門閁閂閃閄閅閆閇閈閉閊開閌閍閎閏閐閑閒間閔閕閖閗閘閙閚閛閜閝閞閟閠閡関閣閤閥閦閧閨閩閪閫閬閭閮閯閰閱閲閳閴閵閶閷閸閹閺閻閼閽閾閿闀闁闂闃闄闅闆闇闈闉闊闋闌闍闎闏闐闑闒闓闔闕闖闗闘闙闚闛關闝闞闟闠闡闢闣闤闥闦闧门闩闪闫闬闭问闯闰闱闲闳间闵闶闷闸闹闺闻闼闽闾闿",
       "隀隁隂隃隄隅隆隇隈隉隊隋隌隍階随隐隑隒隓隔隕隖隗隘隙隚際障隝隞隟隠隡隢隣隤隥隦隧隨隩險隫隬隭隮隯隰隱隲隳隴隵隶隷隸隹隺隻隼隽难隿雀雁雂雃雄雅集雇雈雉雊雋雌雍雎雏雐雑雒雓雔雕雖雗雘雙雚雛雜雝雞雟雠雡離難雤雥雦雧雨雩雪雫雬雭雮雯雰雱雲雳雴雵零雷雸雹雺電雼雽雾雿",
       "鞀鞁鞂鞃鞄鞅鞆鞇鞈鞉鞊鞋鞌鞍鞎鞏鞐鞑鞒鞓鞔鞕鞖鞗鞘鞙鞚鞛鞜鞝鞞鞟鞠鞡鞢鞣鞤鞥鞦鞧鞨鞩鞪鞫鞬鞭鞮鞯鞰鞱鞲鞳鞴鞵鞶鞷鞸鞹鞺鞻鞼鞽鞾鞿韀韁韂韃韄韅韆韇韈韉韊韋韌韍韎韏韐韑韒韓韔韕韖韗韘韙韚韛韜韝韞韟韠韡韢韣韤韥韦韧韨韩韪韫韬韭韮韯韰韱韲音韴韵韶韷韸韹韺韻韼韽韾響",
       "颀颁颂颃预颅领颇颈颉颊颋颌颍颎颏颐频颒颓颔颕颖颗题颙颚颛颜额颞颟颠颡颢颣颤颥颦颧風颩颪颫颬颭颮颯颰颱颲颳颴颵颶颷颸颹颺颻颼颽颾颿飀飁飂飃飄飅飆飇飈飉飊飋飌飍风飏飐飑飒飓飔飕飖飗飘飙飚飛飜飝飞食飠飡飢飣飤飥飦飧飨飩飪飫飬飭飮飯飰飱飲飳飴飵飶飷飸飹飺飻飼飽飾飿",
       "馀馁馂馃馄馅馆馇馈馉馊馋馌馍馎馏馐馑馒馓馔馕首馗馘香馚馛馜馝馞馟馠馡馢馣馤馥馦馧馨馩馪馫馬馭馮馯馰馱馲馳馴馵馶馷馸馹馺馻馼馽馾馿駀駁駂駃駄駅駆駇駈駉駊駋駌駍駎駏駐駑駒駓駔駕駖駗駘駙駚駛駜駝駞駟駠駡駢駣駤駥駦駧駨駩駪駫駬駭駮駯駰駱駲駳駴駵駶駷駸駹駺駻駼駽駾駿",
       "骀骁骂骃骄骅骆骇骈骉骊骋验骍骎骏骐骑骒骓骔骕骖骗骘骙骚骛骜骝骞骟骠骡骢骣骤骥骦骧骨骩骪骫骬骭骮骯骰骱骲骳骴骵骶骷骸骹骺骻骼骽骾骿髀髁髂髃髄髅髆髇髈髉髊髋髌髍髎髏髐髑髒髓體髕髖髗高髙髚髛髜髝髞髟髠髡髢髣髤髥髦髧髨髩髪髫髬髭髮髯髰髱髲髳髴髵髶髷髸髹髺髻髼髽髾髿",
       "鮀鮁鮂鮃鮄鮅鮆鮇鮈鮉鮊鮋鮌鮍鮎鮏鮐鮑鮒鮓鮔鮕鮖鮗鮘鮙鮚鮛鮜鮝鮞鮟鮠鮡鮢鮣鮤鮥鮦鮧鮨鮩鮪鮫鮬鮭鮮鮯鮰鮱鮲鮳鮴鮵鮶鮷鮸鮹鮺鮻鮼鮽鮾鮿鯀鯁鯂鯃鯄鯅鯆鯇鯈鯉鯊鯋鯌鯍鯎鯏鯐鯑鯒鯓鯔鯕鯖鯗鯘鯙鯚鯛鯜鯝鯞鯟鯠鯡鯢鯣鯤鯥鯦鯧鯨鯩鯪鯫鯬鯭鯮鯯鯰鯱鯲鯳鯴鯵鯶鯷鯸鯹鯺鯻鯼鯽鯾鯿",
       "鲀鲁鲂鲃鲄鲅鲆鲇鲈鲉鲊鲋鲌鲍鲎鲏鲐鲑鲒鲓鲔鲕鲖鲗鲘鲙鲚鲛鲜鲝鲞鲟鲠鲡鲢鲣鲤鲥鲦鲧鲨鲩鲪鲫鲬鲭鲮鲯鲰鲱鲲鲳鲴鲵鲶鲷鲸鲹鲺鲻鲼鲽鲾鲿鳀鳁鳂鳃鳄鳅鳆鳇鳈鳉鳊鳋鳌鳍鳎鳏鳐鳑鳒鳓鳔鳕鳖鳗鳘鳙鳚鳛鳜鳝鳞鳟鳠鳡鳢鳣鳤鳥鳦鳧鳨鳩鳪鳫鳬鳭鳮鳯鳰鳱鳲鳳鳴鳵鳶鳷鳸鳹鳺鳻鳼鳽鳾鳿",
       "鶀鶁鶂鶃鶄鶅鶆鶇鶈鶉鶊鶋鶌鶍鶎鶏鶐鶑鶒鶓鶔鶕鶖鶗鶘鶙鶚鶛鶜鶝鶞鶟鶠鶡鶢鶣鶤鶥鶦鶧鶨鶩鶪鶫鶬鶭鶮鶯鶰鶱鶲鶳鶴鶵鶶鶷鶸鶹鶺鶻鶼鶽鶾鶿鷀鷁鷂鷃鷄鷅鷆鷇鷈鷉鷊鷋鷌鷍鷎鷏鷐鷑鷒鷓鷔鷕鷖鷗鷘鷙鷚鷛鷜鷝鷞鷟鷠鷡鷢鷣鷤鷥鷦鷧鷨鷩鷪鷫鷬鷭鷮鷯鷰鷱鷲鷳鷴鷵鷶鷷鷸鷹鷺鷻鷼鷽鷾鷿",
       "麀麁麂麃麄麅麆麇麈麉麊麋麌麍麎麏麐麑麒麓麔麕麖麗麘麙麚麛麜麝麞麟麠麡麢麣麤麥麦麧麨麩麪麫麬麭麮麯麰麱麲麳麴麵麶麷麸麹麺麻麼麽麾麿黀黁黂黃黄黅黆黇黈黉黊黋黌黍黎黏黐黑黒黓黔黕黖黗默黙黚黛黜黝點黟黠黡黢黣黤黥黦黧黨黩黪黫黬黭黮黯黰黱黲黳黴黵黶黷黸黹黺黻黼黽黾黿",
       "龀龁龂龃龄龅龆龇龈龉龊龋龌龍龎龏龐龑龒龓龔龕龖龗龘龙龚龛龜龝龞龟龠龡龢龣龤龥龦龧龨龩龪龫龬龭龮龯龰龱龲龳龴龵龶龷龸龹龺龻龼龽龾龿鿀鿁鿂鿃鿄鿅鿆鿇鿈鿉鿊鿋鿌鿍鿎鿏鿐鿑鿒鿓鿔鿕鿖鿗鿘鿙鿚鿛鿜鿝鿞鿟鿠鿡鿢鿣鿤鿥鿦鿧鿨鿩鿪鿫鿬鿭鿮鿯鿰鿱鿲鿳鿴鿵鿶鿷鿸鿹鿺鿻鿼鿽鿾鿿",
       "ꂀꂁꂂꂃꂄꂅꂆꂇꂈꂉꂊꂋꂌꂍꂎꂏꂐꂑꂒꂓꂔꂕꂖꂗꂘꂙꂚꂛꂜꂝꂞꂟꂠꂡꂢꂣꂤꂥꂦꂧꂨꂩꂪꂫꂬꂭꂮꂯꂰꂱꂲꂳꂴꂵꂶꂷꂸꂹꂺꂻꂼꂽꂾꂿꃀꃁꃂꃃꃄꃅꃆꃇꃈꃉꃊꃋꃌꃍꃎꃏꃐꃑꃒꃓꃔꃕꃖꃗꃘꃙꃚꃛꃜꃝꃞꃟꃠꃡꃢꃣꃤꃥꃦꃧꃨꃩꃪꃫꃬꃭꃮꃯꃰꃱꃲꃳꃴꃵꃶꃷꃸꃹꃺꃻꃼꃽꃾꃿ",
       "ꆀꆁꆂꆃꆄꆅꆆꆇꆈꆉꆊꆋꆌꆍꆎꆏꆐꆑꆒꆓꆔꆕꆖꆗꆘꆙꆚꆛꆜꆝꆞꆟꆠꆡꆢꆣꆤꆥꆦꆧꆨꆩꆪꆫꆬꆭꆮꆯꆰꆱꆲꆳꆴꆵꆶꆷꆸꆹꆺꆻꆼꆽꆾꆿꇀꇁꇂꇃꇄꇅꇆꇇꇈꇉꇊꇋꇌꇍꇎꇏꇐꇑꇒꇓꇔꇕꇖꇗꇘꇙꇚꇛꇜꇝꇞꇟꇠꇡꇢꇣꇤꇥꇦꇧꇨꇩꇪꇫꇬꇭꇮꇯꇰꇱꇲꇳꇴꇵꇶꇷꇸꇹꇺꇻꇼꇽꇾꇿ",
       "ꊀꊁꊂꊃꊄꊅꊆꊇꊈꊉꊊꊋꊌꊍꊎꊏꊐꊑꊒꊓꊔꊕꊖꊗꊘꊙꊚꊛꊜꊝꊞꊟꊠꊡꊢꊣꊤꊥꊦꊧꊨꊩꊪꊫꊬꊭꊮꊯꊰꊱꊲꊳꊴꊵꊶꊷꊸꊹꊺꊻꊼꊽꊾꊿꋀꋁꋂꋃꋄꋅꋆꋇꋈꋉꋊꋋꋌꋍꋎꋏꋐꋑꋒꋓꋔꋕꋖꋗꋘꋙꋚꋛꋜꋝꋞꋟꋠꋡꋢꋣꋤꋥꋦꋧꋨꋩꋪꋫꋬꋭꋮꋯꋰꋱꋲꋳꋴꋵꋶꋷꋸꋹꋺꋻꋼꋽꋾꋿ",
       "ꎀꎁꎂꎃꎄꎅꎆꎇꎈꎉꎊꎋꎌꎍꎎꎏꎐꎑꎒꎓꎔꎕꎖꎗꎘꎙꎚꎛꎜꎝꎞꎟꎠꎡꎢꎣꎤꎥꎦꎧꎨꎩꎪꎫꎬꎭꎮꎯꎰꎱꎲꎳꎴꎵꎶꎷꎸꎹꎺꎻꎼꎽꎾꎿꏀꏁꏂꏃꏄꏅꏆꏇꏈꏉꏊꏋꏌꏍꏎꏏꏐꏑꏒꏓꏔꏕꏖꏗꏘꏙꏚꏛꏜꏝꏞꏟꏠꏡꏢꏣꏤꏥꏦꏧꏨꏩꏪꏫꏬꏭꏮꏯꏰꏱꏲꏳꏴꏵꏶꏷꏸꏹꏺꏻꏼꏽꏾꏿ",
       "ꒀꒁꒂꒃꒄꒅꒆꒇꒈꒉꒊꒋꒌ꒍꒎꒏꒐꒑꒒꒓꒔꒕꒖꒗꒘꒙꒚꒛꒜꒝꒞꒟꒠꒡꒢꒣꒤꒥꒦꒧꒨꒩꒪꒫꒬꒭꒮꒯꒰꒱꒲꒳꒴꒵꒶꒷꒸꒹꒺꒻꒼꒽꒾꒿꓀꓁꓂꓃꓄꓅꓆꓇꓈꓉꓊꓋꓌꓍꓎꓏ꓐꓑꓒꓓꓔꓕꓖꓗꓘꓙꓚꓛꓜꓝꓞꓟꓠꓡꓢꓣꓤꓥꓦꓧꓨꓩꓪꓫꓬꓭꓮꓯꓰꓱꓲꓳꓴꓵꓶꓷꓸꓹꓺꓻꓼꓽ꓾꓿",
       "ꖀꖁꖂꖃꖄꖅꖆꖇꖈꖉꖊꖋꖌꖍꖎꖏꖐꖑꖒꖓꖔꖕꖖꖗꖘꖙꖚꖛꖜꖝꖞꖟꖠꖡꖢꖣꖤꖥꖦꖧꖨꖩꖪꖫꖬꖭꖮꖯꖰꖱꖲꖳꖴꖵꖶꖷꖸꖹꖺꖻꖼꖽꖾꖿꗀꗁꗂꗃꗄꗅꗆꗇꗈꗉꗊꗋꗌꗍꗎꗏꗐꗑꗒꗓꗔꗕꗖꗗꗘꗙꗚꗛꗜꗝꗞꗟꗠꗡꗢꗣꗤꗥꗦꗧꗨꗩꗪꗫꗬꗭꗮꗯꗰꗱꗲꗳꗴꗵꗶꗷꗸꗹꗺꗻꗼꗽꗾꗿ",
       "ꚀꚁꚂꚃꚄꚅꚆꚇꚈꚉꚊꚋꚌꚍꚎꚏꚐꚑꚒꚓꚔꚕꚖꚗꚘꚙꚚꚛꚜꚝꚞꚟꚠꚡꚢꚣꚤꚥꚦꚧꚨꚩꚪꚫꚬꚭꚮꚯꚰꚱꚲꚳꚴꚵꚶꚷꚸꚹꚺꚻꚼꚽꚾꚿꛀꛁꛂꛃꛄꛅꛆꛇꛈꛉꛊꛋꛌꛍꛎꛏꛐꛑꛒꛓꛔꛕꛖꛗꛘꛙꛚꛛꛜꛝꛞꛟꛠꛡꛢꛣꛤꛥꛦꛧꛨꛩꛪꛫꛬꛭꛮꛯ꛰꛱꛲꛳꛴꛵꛶꛷꛸꛹꛺꛻꛼꛽꛾꛿",
       "ꞀꞁꞂꞃꞄꞅꞆꞇꞈ꞉꞊ꞋꞌꞍꞎꞏꞐꞑꞒꞓꞔꞕꞖꞗꞘꞙꞚꞛꞜꞝꞞꞟꞠꞡꞢꞣꞤꞥꞦꞧꞨꞩꞪꞫꞬꞭꞮꞯꞰꞱꞲꞳꞴꞵꞶꞷꞸꞹꞺꞻꞼꞽꞾꞿꟀꟁꟂꟃꟄꟅꟆꟇꟈꟉꟊꟋꟌꟍ꟎꟏Ꟑꟑ꟒ꟓ꟔ꟕꟖꟗꟘꟙꟚꟛꟜ꟝꟞꟟꟠꟡꟢꟣꟤꟥꟦꟧꟨꟩꟪꟫꟬꟭꟮꟯꟰꟱ꟲꟳꟴꟵꟶꟷꟸꟹꟺꟻꟼꟽꟾꟿ",
       "ꢀꢁꢂꢃꢄꢅꢆꢇꢈꢉꢊꢋꢌꢍꢎꢏꢐꢑꢒꢓꢔꢕꢖꢗꢘꢙꢚꢛꢜꢝꢞꢟꢠꢡꢢꢣꢤꢥꢦꢧꢨꢩꢪꢫꢬꢭꢮꢯꢰꢱꢲꢳꢴꢵꢶꢷꢸꢹꢺꢻꢼꢽꢾꢿꣀꣁꣂꣃ꣄ꣅ꣆꣇꣈꣉꣊꣋꣌꣍꣎꣏꣐꣑꣒꣓꣔꣕꣖꣗꣘꣙꣚꣛꣜꣝꣞꣟꣠꣡꣢꣣꣤꣥꣦꣧꣨꣩꣪꣫꣬꣭꣮꣯꣰꣱ꣲꣳꣴꣵꣶꣷ꣸꣹꣺ꣻ꣼ꣽꣾꣿ",
       "ꦀꦁꦂꦃꦄꦅꦆꦇꦈꦉꦊꦋꦌꦍꦎꦏꦐꦑꦒꦓꦔꦕꦖꦗꦘꦙꦚꦛꦜꦝꦞꦟꦠꦡꦢꦣꦤꦥꦦꦧꦨꦩꦪꦫꦬꦭꦮꦯꦰꦱꦲ꦳ꦴꦵꦶꦷꦸꦹꦺꦻꦼꦽꦾꦿ꧀꧁꧂꧃꧄꧅꧆꧇꧈꧉꧊꧋꧌꧍꧎ꧏ꧐꧑꧒꧓꧔꧕꧖꧗꧘꧙꧚꧛꧜꧝꧞꧟ꧠꧡꧢꧣꧤꧥꧦꧧꧨꧩꧪꧫꧬꧭꧮꧯ꧰꧱꧲꧳꧴꧵꧶꧷꧸꧹ꧺꧻꧼꧽꧾ꧿",
       "ꪀꪁꪂꪃꪄꪅꪆꪇꪈꪉꪊꪋꪌꪍꪎꪏꪐꪑꪒꪓꪔꪕꪖꪗꪘꪙꪚꪛꪜꪝꪞꪟꪠꪡꪢꪣꪤꪥꪦꪧꪨꪩꪪꪫꪬꪭꪮꪯꪰꪱꪴꪲꪳꪵꪶꪷꪸꪹꪺꪻꪼꪽꪾ꪿ꫀ꫁ꫂ꫃꫄꫅꫆꫇꫈꫉꫊꫋꫌꫍꫎꫏꫐꫑꫒꫓꫔꫕꫖꫗꫘꫙꫚ꫛꫜꫝ꫞꫟ꫠꫡꫢꫣꫤꫥꫦꫧꫨꫩꫪꫫꫬꫭꫮꫯ꫰꫱ꫲꫳꫴꫵ꫶꫷꫸꫹꫺꫻꫼꫽꫾꫿",
       "ꮀꮁꮂꮃꮄꮅꮆꮇꮈꮉꮊꮋꮌꮍꮎꮏꮐꮑꮒꮓꮔꮕꮖꮗꮘꮙꮚꮛꮜꮝꮞꮟꮠꮡꮢꮣꮤꮥꮦꮧꮨꮩꮪꮫꮬꮭꮮꮯꮰꮱꮲꮳꮴꮵꮶꮷꮸꮹꮺꮻꮼꮽꮾꮿꯀꯁꯂꯃꯄꯅꯆꯇꯈꯉꯊꯋꯌꯍꯎꯏꯐꯑꯒꯓꯔꯕꯖꯗꯘꯙꯚꯛꯜꯝꯞꯟꯠꯡꯢꯣꯤꯥꯦꯧꯨꯩꯪ꯫꯬꯭꯮꯯꯰꯱꯲꯳꯴꯵꯶꯷꯸꯹꯺꯻꯼꯽꯾꯿",
       "검겁겂것겄겅겆겇겈겉겊겋게겍겎겏겐겑겒겓겔겕겖겗겘겙겚겛겜겝겞겟겠겡겢겣겤겥겦겧겨격겪겫견겭겮겯결겱겲겳겴겵겶겷겸겹겺겻겼경겾겿곀곁곂곃계곅곆곇곈곉곊곋곌곍곎곏곐곑곒곓곔곕곖곗곘곙곚곛곜곝곞곟고곡곢곣곤곥곦곧골곩곪곫곬곭곮곯곰곱곲곳곴공곶곷곸곹곺곻과곽곾곿",
       "궀궁궂궃궄궅궆궇궈궉궊궋권궍궎궏궐궑궒궓궔궕궖궗궘궙궚궛궜궝궞궟궠궡궢궣궤궥궦궧궨궩궪궫궬궭궮궯궰궱궲궳궴궵궶궷궸궹궺궻궼궽궾궿귀귁귂귃귄귅귆귇귈귉귊귋귌귍귎귏귐귑귒귓귔귕귖귗귘귙귚귛규귝귞귟균귡귢귣귤귥귦귧귨귩귪귫귬귭귮귯귰귱귲귳귴귵귶귷그극귺귻근귽귾귿",
       "꺀꺁꺂꺃꺄꺅꺆꺇꺈꺉꺊꺋꺌꺍꺎꺏꺐꺑꺒꺓꺔꺕꺖꺗꺘꺙꺚꺛꺜꺝꺞꺟꺠꺡꺢꺣꺤꺥꺦꺧꺨꺩꺪꺫꺬꺭꺮꺯꺰꺱꺲꺳꺴꺵꺶꺷꺸꺹꺺꺻꺼꺽꺾꺿껀껁껂껃껄껅껆껇껈껉껊껋껌껍껎껏껐껑껒껓껔껕껖껗께껙껚껛껜껝껞껟껠껡껢껣껤껥껦껧껨껩껪껫껬껭껮껯껰껱껲껳껴껵껶껷껸껹껺껻껼껽껾껿",
       "꾀꾁꾂꾃꾄꾅꾆꾇꾈꾉꾊꾋꾌꾍꾎꾏꾐꾑꾒꾓꾔꾕꾖꾗꾘꾙꾚꾛꾜꾝꾞꾟꾠꾡꾢꾣꾤꾥꾦꾧꾨꾩꾪꾫꾬꾭꾮꾯꾰꾱꾲꾳꾴꾵꾶꾷꾸꾹꾺꾻꾼꾽꾾꾿꿀꿁꿂꿃꿄꿅꿆꿇꿈꿉꿊꿋꿌꿍꿎꿏꿐꿑꿒꿓꿔꿕꿖꿗꿘꿙꿚꿛꿜꿝꿞꿟꿠꿡꿢꿣꿤꿥꿦꿧꿨꿩꿪꿫꿬꿭꿮꿯꿰꿱꿲꿳꿴꿵꿶꿷꿸꿹꿺꿻꿼꿽꿾꿿",
       "낀낁낂낃낄낅낆낇낈낉낊낋낌낍낎낏낐낑낒낓낔낕낖낗나낙낚낛난낝낞낟날낡낢낣낤낥낦낧남납낪낫났낭낮낯낰낱낲낳내낵낶낷낸낹낺낻낼낽낾낿냀냁냂냃냄냅냆냇냈냉냊냋냌냍냎냏냐냑냒냓냔냕냖냗냘냙냚냛냜냝냞냟냠냡냢냣냤냥냦냧냨냩냪냫냬냭냮냯냰냱냲냳냴냵냶냷냸냹냺냻냼냽냾냿",
       "놀놁놂놃놄놅놆놇놈놉놊놋놌농놎놏놐놑높놓놔놕놖놗놘놙놚놛놜놝놞놟놠놡놢놣놤놥놦놧놨놩놪놫놬놭놮놯놰놱놲놳놴놵놶놷놸놹놺놻놼놽놾놿뇀뇁뇂뇃뇄뇅뇆뇇뇈뇉뇊뇋뇌뇍뇎뇏뇐뇑뇒뇓뇔뇕뇖뇗뇘뇙뇚뇛뇜뇝뇞뇟뇠뇡뇢뇣뇤뇥뇦뇧뇨뇩뇪뇫뇬뇭뇮뇯뇰뇱뇲뇳뇴뇵뇶뇷뇸뇹뇺뇻뇼뇽뇾뇿",
       "늀늁늂늃늄늅늆늇늈늉늊늋늌늍늎늏느늑늒늓는늕늖늗늘늙늚늛늜늝늞늟늠늡늢늣늤능늦늧늨늩늪늫늬늭늮늯늰늱늲늳늴늵늶늷늸늹늺늻늼늽늾늿닀닁닂닃닄닅닆닇니닉닊닋닌닍닎닏닐닑닒닓닔닕닖닗님닙닚닛닜닝닞닟닠닡닢닣다닥닦닧단닩닪닫달닭닮닯닰닱닲닳담답닶닷닸당닺닻닼닽닾닿",
       "뎀뎁뎂뎃뎄뎅뎆뎇뎈뎉뎊뎋뎌뎍뎎뎏뎐뎑뎒뎓뎔뎕뎖뎗뎘뎙뎚뎛뎜뎝뎞뎟뎠뎡뎢뎣뎤뎥뎦뎧뎨뎩뎪뎫뎬뎭뎮뎯뎰뎱뎲뎳뎴뎵뎶뎷뎸뎹뎺뎻뎼뎽뎾뎿돀돁돂돃도독돆돇돈돉돊돋돌돍돎돏돐돑돒돓돔돕돖돗돘동돚돛돜돝돞돟돠돡돢돣돤돥돦돧돨돩돪돫돬돭돮돯돰돱돲돳돴돵돶돷돸돹돺돻돼돽돾돿",
       "뒀뒁뒂뒃뒄뒅뒆뒇뒈뒉뒊뒋뒌뒍뒎뒏뒐뒑뒒뒓뒔뒕뒖뒗뒘뒙뒚뒛뒜뒝뒞뒟뒠뒡뒢뒣뒤뒥뒦뒧뒨뒩뒪뒫뒬뒭뒮뒯뒰뒱뒲뒳뒴뒵뒶뒷뒸뒹뒺뒻뒼뒽뒾뒿듀듁듂듃듄듅듆듇듈듉듊듋듌듍듎듏듐듑듒듓듔듕듖듗듘듙듚듛드득듞듟든듡듢듣들듥듦듧듨듩듪듫듬듭듮듯듰등듲듳듴듵듶듷듸듹듺듻듼듽듾듿",
       "떀떁떂떃떄떅떆떇떈떉떊떋떌떍떎떏떐떑떒떓떔떕떖떗떘떙떚떛떜떝떞떟떠떡떢떣떤떥떦떧떨떩떪떫떬떭떮떯떰떱떲떳떴떵떶떷떸떹떺떻떼떽떾떿뗀뗁뗂뗃뗄뗅뗆뗇뗈뗉뗊뗋뗌뗍뗎뗏뗐뗑뗒뗓뗔뗕뗖뗗뗘뗙뗚뗛뗜뗝뗞뗟뗠뗡뗢뗣뗤뗥뗦뗧뗨뗩뗪뗫뗬뗭뗮뗯뗰뗱뗲뗳뗴뗵뗶뗷뗸뗹뗺뗻뗼뗽뗾뗿",
       "뚀뚁뚂뚃뚄뚅뚆뚇뚈뚉뚊뚋뚌뚍뚎뚏뚐뚑뚒뚓뚔뚕뚖뚗뚘뚙뚚뚛뚜뚝뚞뚟뚠뚡뚢뚣뚤뚥뚦뚧뚨뚩뚪뚫뚬뚭뚮뚯뚰뚱뚲뚳뚴뚵뚶뚷뚸뚹뚺뚻뚼뚽뚾뚿뛀뛁뛂뛃뛄뛅뛆뛇뛈뛉뛊뛋뛌뛍뛎뛏뛐뛑뛒뛓뛔뛕뛖뛗뛘뛙뛚뛛뛜뛝뛞뛟뛠뛡뛢뛣뛤뛥뛦뛧뛨뛩뛪뛫뛬뛭뛮뛯뛰뛱뛲뛳뛴뛵뛶뛷뛸뛹뛺뛻뛼뛽뛾뛿",
       "란랁랂랃랄랅랆랇랈랉랊랋람랍랎랏랐랑랒랓랔랕랖랗래랙랚랛랜랝랞랟랠랡랢랣랤랥랦랧램랩랪랫랬랭랮랯랰랱랲랳랴략랶랷랸랹랺랻랼랽랾랿럀럁럂럃럄럅럆럇럈량럊럋럌럍럎럏럐럑럒럓럔럕럖럗럘럙럚럛럜럝럞럟럠럡럢럣럤럥럦럧럨럩럪럫러럭럮럯런럱럲럳럴럵럶럷럸럹럺럻럼럽럾럿",
       "뢀뢁뢂뢃뢄뢅뢆뢇뢈뢉뢊뢋뢌뢍뢎뢏뢐뢑뢒뢓뢔뢕뢖뢗뢘뢙뢚뢛뢜뢝뢞뢟뢠뢡뢢뢣뢤뢥뢦뢧뢨뢩뢪뢫뢬뢭뢮뢯뢰뢱뢲뢳뢴뢵뢶뢷뢸뢹뢺뢻뢼뢽뢾뢿룀룁룂룃룄룅룆룇룈룉룊룋료룍룎룏룐룑룒룓룔룕룖룗룘룙룚룛룜룝룞룟룠룡룢룣룤룥룦룧루룩룪룫룬룭룮룯룰룱룲룳룴룵룶룷룸룹룺룻룼룽룾룿",
       "릀릁릂릃름릅릆릇릈릉릊릋릌릍릎릏릐릑릒릓릔릕릖릗릘릙릚릛릜릝릞릟릠릡릢릣릤릥릦릧릨릩릪릫리릭릮릯린릱릲릳릴릵릶릷릸릹릺릻림립릾릿맀링맂맃맄맅맆맇마막맊맋만맍많맏말맑맒맓맔맕맖맗맘맙맚맛맜망맞맟맠맡맢맣매맥맦맧맨맩맪맫맬맭맮맯맰맱맲맳맴맵맶맷맸맹맺맻맼맽맾맿",
       "몀몁몂몃몄명몆몇몈몉몊몋몌몍몎몏몐몑몒몓몔몕몖몗몘몙몚몛몜몝몞몟몠몡몢몣몤몥몦몧모목몪몫몬몭몮몯몰몱몲몳몴몵몶몷몸몹몺못몼몽몾몿뫀뫁뫂뫃뫄뫅뫆뫇뫈뫉뫊뫋뫌뫍뫎뫏뫐뫑뫒뫓뫔뫕뫖뫗뫘뫙뫚뫛뫜뫝뫞뫟뫠뫡뫢뫣뫤뫥뫦뫧뫨뫩뫪뫫뫬뫭뫮뫯뫰뫱뫲뫳뫴뫵뫶뫷뫸뫹뫺뫻뫼뫽뫾뫿",
       "뮀뮁뮂뮃뮄뮅뮆뮇뮈뮉뮊뮋뮌뮍뮎뮏뮐뮑뮒뮓뮔뮕뮖뮗뮘뮙뮚뮛뮜뮝뮞뮟뮠뮡뮢뮣뮤뮥뮦뮧뮨뮩뮪뮫뮬뮭뮮뮯뮰뮱뮲뮳뮴뮵뮶뮷뮸뮹뮺뮻뮼뮽뮾뮿므믁믂믃믄믅믆믇믈믉믊믋믌믍믎믏믐믑믒믓믔믕믖믗믘믙믚믛믜믝믞믟믠믡믢믣믤믥믦믧믨믩믪믫믬믭믮믯믰믱믲믳믴믵믶믷미믹믺믻민믽믾믿",
       "벀벁벂벃버벅벆벇번벉벊벋벌벍벎벏벐벑벒벓범법벖벗벘벙벚벛벜벝벞벟베벡벢벣벤벥벦벧벨벩벪벫벬벭벮벯벰벱벲벳벴벵벶벷벸벹벺벻벼벽벾벿변볁볂볃별볅볆볇볈볉볊볋볌볍볎볏볐병볒볓볔볕볖볗볘볙볚볛볜볝볞볟볠볡볢볣볤볥볦볧볨볩볪볫볬볭볮볯볰볱볲볳보복볶볷본볹볺볻볼볽볾볿",
       "부북붂붃분붅붆붇불붉붊붋붌붍붎붏붐붑붒붓붔붕붖붗붘붙붚붛붜붝붞붟붠붡붢붣붤붥붦붧붨붩붪붫붬붭붮붯붰붱붲붳붴붵붶붷붸붹붺붻붼붽붾붿뷀뷁뷂뷃뷄뷅뷆뷇뷈뷉뷊뷋뷌뷍뷎뷏뷐뷑뷒뷓뷔뷕뷖뷗뷘뷙뷚뷛뷜뷝뷞뷟뷠뷡뷢뷣뷤뷥뷦뷧뷨뷩뷪뷫뷬뷭뷮뷯뷰뷱뷲뷳뷴뷵뷶뷷뷸뷹뷺뷻뷼뷽뷾뷿",
       "뺀뺁뺂뺃뺄뺅뺆뺇뺈뺉뺊뺋뺌뺍뺎뺏뺐뺑뺒뺓뺔뺕뺖뺗뺘뺙뺚뺛뺜뺝뺞뺟뺠뺡뺢뺣뺤뺥뺦뺧뺨뺩뺪뺫뺬뺭뺮뺯뺰뺱뺲뺳뺴뺵뺶뺷뺸뺹뺺뺻뺼뺽뺾뺿뻀뻁뻂뻃뻄뻅뻆뻇뻈뻉뻊뻋뻌뻍뻎뻏뻐뻑뻒뻓뻔뻕뻖뻗뻘뻙뻚뻛뻜뻝뻞뻟뻠뻡뻢뻣뻤뻥뻦뻧뻨뻩뻪뻫뻬뻭뻮뻯뻰뻱뻲뻳뻴뻵뻶뻷뻸뻹뻺뻻뻼뻽뻾뻿",
       "뾀뾁뾂뾃뾄뾅뾆뾇뾈뾉뾊뾋뾌뾍뾎뾏뾐뾑뾒뾓뾔뾕뾖뾗뾘뾙뾚뾛뾜뾝뾞뾟뾠뾡뾢뾣뾤뾥뾦뾧뾨뾩뾪뾫뾬뾭뾮뾯뾰뾱뾲뾳뾴뾵뾶뾷뾸뾹뾺뾻뾼뾽뾾뾿뿀뿁뿂뿃뿄뿅뿆뿇뿈뿉뿊뿋뿌뿍뿎뿏뿐뿑뿒뿓뿔뿕뿖뿗뿘뿙뿚뿛뿜뿝뿞뿟뿠뿡뿢뿣뿤뿥뿦뿧뿨뿩뿪뿫뿬뿭뿮뿯뿰뿱뿲뿳뿴뿵뿶뿷뿸뿹뿺뿻뿼뿽뿾뿿",
       "삀삁삂삃삄삅삆삇삈삉삊삋삌삍삎삏삐삑삒삓삔삕삖삗삘삙삚삛삜삝삞삟삠삡삢삣삤삥삦삧삨삩삪삫사삭삮삯산삱삲삳살삵삶삷삸삹삺삻삼삽삾삿샀상샂샃샄샅샆샇새색샊샋샌샍샎샏샐샑샒샓샔샕샖샗샘샙샚샛샜생샞샟샠샡샢샣샤샥샦샧샨샩샪샫샬샭샮샯샰샱샲샳샴샵샶샷샸샹샺샻샼샽샾샿",
       "솀솁솂솃솄솅솆솇솈솉솊솋소속솎솏손솑솒솓솔솕솖솗솘솙솚솛솜솝솞솟솠송솢솣솤솥솦솧솨솩솪솫솬솭솮솯솰솱솲솳솴솵솶솷솸솹솺솻솼솽솾솿쇀쇁쇂쇃쇄쇅쇆쇇쇈쇉쇊쇋쇌쇍쇎쇏쇐쇑쇒쇓쇔쇕쇖쇗쇘쇙쇚쇛쇜쇝쇞쇟쇠쇡쇢쇣쇤쇥쇦쇧쇨쇩쇪쇫쇬쇭쇮쇯쇰쇱쇲쇳쇴쇵쇶쇷쇸쇹쇺쇻쇼쇽쇾쇿",
       "슀슁슂슃슄슅슆슇슈슉슊슋슌슍슎슏슐슑슒슓슔슕슖슗슘슙슚슛슜슝슞슟슠슡슢슣스슥슦슧슨슩슪슫슬슭슮슯슰슱슲슳슴습슶슷슸승슺슻슼슽슾슿싀싁싂싃싄싅싆싇싈싉싊싋싌싍싎싏싐싑싒싓싔싕싖싗싘싙싚싛시식싞싟신싡싢싣실싥싦싧싨싩싪싫심십싮싯싰싱싲싳싴싵싶싷싸싹싺싻싼싽싾싿",
       "쎀쎁쎂쎃쎄쎅쎆쎇쎈쎉쎊쎋쎌쎍쎎쎏쎐쎑쎒쎓쎔쎕쎖쎗쎘쎙쎚쎛쎜쎝쎞쎟쎠쎡쎢쎣쎤쎥쎦쎧쎨쎩쎪쎫쎬쎭쎮쎯쎰쎱쎲쎳쎴쎵쎶쎷쎸쎹쎺쎻쎼쎽쎾쎿쏀쏁쏂쏃쏄쏅쏆쏇쏈쏉쏊쏋쏌쏍쏎쏏쏐쏑쏒쏓쏔쏕쏖쏗쏘쏙쏚쏛쏜쏝쏞쏟쏠쏡쏢쏣쏤쏥쏦쏧쏨쏩쏪쏫쏬쏭쏮쏯쏰쏱쏲쏳쏴쏵쏶쏷쏸쏹쏺쏻쏼쏽쏾쏿",
       "쒀쒁쒂쒃쒄쒅쒆쒇쒈쒉쒊쒋쒌쒍쒎쒏쒐쒑쒒쒓쒔쒕쒖쒗쒘쒙쒚쒛쒜쒝쒞쒟쒠쒡쒢쒣쒤쒥쒦쒧쒨쒩쒪쒫쒬쒭쒮쒯쒰쒱쒲쒳쒴쒵쒶쒷쒸쒹쒺쒻쒼쒽쒾쒿쓀쓁쓂쓃쓄쓅쓆쓇쓈쓉쓊쓋쓌쓍쓎쓏쓐쓑쓒쓓쓔쓕쓖쓗쓘쓙쓚쓛쓜쓝쓞쓟쓠쓡쓢쓣쓤쓥쓦쓧쓨쓩쓪쓫쓬쓭쓮쓯쓰쓱쓲쓳쓴쓵쓶쓷쓸쓹쓺쓻쓼쓽쓾쓿",
       "얀얁얂얃얄얅얆얇얈얉얊얋얌얍얎얏얐양얒얓얔얕얖얗얘얙얚얛얜얝얞얟얠얡얢얣얤얥얦얧얨얩얪얫얬얭얮얯얰얱얲얳어억얶얷언얹얺얻얼얽얾얿엀엁엂엃엄업없엇었엉엊엋엌엍엎엏에엑엒엓엔엕엖엗엘엙엚엛엜엝엞엟엠엡엢엣엤엥엦엧엨엩엪엫여역엮엯연엱엲엳열엵엶엷엸엹엺엻염엽엾엿",
       "욀욁욂욃욄욅욆욇욈욉욊욋욌욍욎욏욐욑욒욓요욕욖욗욘욙욚욛욜욝욞욟욠욡욢욣욤욥욦욧욨용욪욫욬욭욮욯우욱욲욳운욵욶욷울욹욺욻욼욽욾욿움웁웂웃웄웅웆웇웈웉웊웋워웍웎웏원웑웒웓월웕웖웗웘웙웚웛웜웝웞웟웠웡웢웣웤웥웦웧웨웩웪웫웬웭웮웯웰웱웲웳웴웵웶웷웸웹웺웻웼웽웾웿",
       "잀잁잂잃임입잆잇있잉잊잋잌잍잎잏자작잒잓잔잕잖잗잘잙잚잛잜잝잞잟잠잡잢잣잤장잦잧잨잩잪잫재잭잮잯잰잱잲잳잴잵잶잷잸잹잺잻잼잽잾잿쟀쟁쟂쟃쟄쟅쟆쟇쟈쟉쟊쟋쟌쟍쟎쟏쟐쟑쟒쟓쟔쟕쟖쟗쟘쟙쟚쟛쟜쟝쟞쟟쟠쟡쟢쟣쟤쟥쟦쟧쟨쟩쟪쟫쟬쟭쟮쟯쟰쟱쟲쟳쟴쟵쟶쟷쟸쟹쟺쟻쟼쟽쟾쟿",
       "좀좁좂좃좄종좆좇좈좉좊좋좌좍좎좏좐좑좒좓좔좕좖좗좘좙좚좛좜좝좞좟좠좡좢좣좤좥좦좧좨좩좪좫좬좭좮좯좰좱좲좳좴좵좶좷좸좹좺좻좼좽좾좿죀죁죂죃죄죅죆죇죈죉죊죋죌죍죎죏죐죑죒죓죔죕죖죗죘죙죚죛죜죝죞죟죠죡죢죣죤죥죦죧죨죩죪죫죬죭죮죯죰죱죲죳죴죵죶죷죸죹죺죻주죽죾죿",
       "즀즁즂즃즄즅즆즇즈즉즊즋즌즍즎즏즐즑즒즓즔즕즖즗즘즙즚즛즜증즞즟즠즡즢즣즤즥즦즧즨즩즪즫즬즭즮즯즰즱즲즳즴즵즶즷즸즹즺즻즼즽즾즿지직짂짃진짅짆짇질짉짊짋짌짍짎짏짐집짒짓짔징짖짗짘짙짚짛짜짝짞짟짠짡짢짣짤짥짦짧짨짩짪짫짬짭짮짯짰짱짲짳짴짵짶짷째짹짺짻짼짽짾짿",
       "쪀쪁쪂쪃쪄쪅쪆쪇쪈쪉쪊쪋쪌쪍쪎쪏쪐쪑쪒쪓쪔쪕쪖쪗쪘쪙쪚쪛쪜쪝쪞쪟쪠쪡쪢쪣쪤쪥쪦쪧쪨쪩쪪쪫쪬쪭쪮쪯쪰쪱쪲쪳쪴쪵쪶쪷쪸쪹쪺쪻쪼쪽쪾쪿쫀쫁쫂쫃쫄쫅쫆쫇쫈쫉쫊쫋쫌쫍쫎쫏쫐쫑쫒쫓쫔쫕쫖쫗쫘쫙쫚쫛쫜쫝쫞쫟쫠쫡쫢쫣쫤쫥쫦쫧쫨쫩쫪쫫쫬쫭쫮쫯쫰쫱쫲쫳쫴쫵쫶쫷쫸쫹쫺쫻쫼쫽쫾쫿",
       "쮀쮁쮂쮃쮄쮅쮆쮇쮈쮉쮊쮋쮌쮍쮎쮏쮐쮑쮒쮓쮔쮕쮖쮗쮘쮙쮚쮛쮜쮝쮞쮟쮠쮡쮢쮣쮤쮥쮦쮧쮨쮩쮪쮫쮬쮭쮮쮯쮰쮱쮲쮳쮴쮵쮶쮷쮸쮹쮺쮻쮼쮽쮾쮿쯀쯁쯂쯃쯄쯅쯆쯇쯈쯉쯊쯋쯌쯍쯎쯏쯐쯑쯒쯓쯔쯕쯖쯗쯘쯙쯚쯛쯜쯝쯞쯟쯠쯡쯢쯣쯤쯥쯦쯧쯨쯩쯪쯫쯬쯭쯮쯯쯰쯱쯲쯳쯴쯵쯶쯷쯸쯹쯺쯻쯼쯽쯾쯿",
       "첀첁첂첃첄첅첆첇첈첉첊첋첌첍첎첏첐첑첒첓첔첕첖첗처척첚첛천첝첞첟철첡첢첣첤첥첦첧첨첩첪첫첬청첮첯첰첱첲첳체첵첶첷첸첹첺첻첼첽첾첿쳀쳁쳂쳃쳄쳅쳆쳇쳈쳉쳊쳋쳌쳍쳎쳏쳐쳑쳒쳓쳔쳕쳖쳗쳘쳙쳚쳛쳜쳝쳞쳟쳠쳡쳢쳣쳤쳥쳦쳧쳨쳩쳪쳫쳬쳭쳮쳯쳰쳱쳲쳳쳴쳵쳶쳷쳸쳹쳺쳻쳼쳽쳾쳿",
       "춀춁춂춃춄춅춆춇춈춉춊춋춌춍춎춏춐춑춒춓추축춖춗춘춙춚춛출춝춞춟춠춡춢춣춤춥춦춧춨충춪춫춬춭춮춯춰춱춲춳춴춵춶춷춸춹춺춻춼춽춾춿췀췁췂췃췄췅췆췇췈췉췊췋췌췍췎췏췐췑췒췓췔췕췖췗췘췙췚췛췜췝췞췟췠췡췢췣췤췥췦췧취췩췪췫췬췭췮췯췰췱췲췳췴췵췶췷췸췹췺췻췼췽췾췿",
       "캀캁캂캃캄캅캆캇캈캉캊캋캌캍캎캏캐캑캒캓캔캕캖캗캘캙캚캛캜캝캞캟캠캡캢캣캤캥캦캧캨캩캪캫캬캭캮캯캰캱캲캳캴캵캶캷캸캹캺캻캼캽캾캿컀컁컂컃컄컅컆컇컈컉컊컋컌컍컎컏컐컑컒컓컔컕컖컗컘컙컚컛컜컝컞컟컠컡컢컣커컥컦컧컨컩컪컫컬컭컮컯컰컱컲컳컴컵컶컷컸컹컺컻컼컽컾컿",
       "쾀쾁쾂쾃쾄쾅쾆쾇쾈쾉쾊쾋쾌쾍쾎쾏쾐쾑쾒쾓쾔쾕쾖쾗쾘쾙쾚쾛쾜쾝쾞쾟쾠쾡쾢쾣쾤쾥쾦쾧쾨쾩쾪쾫쾬쾭쾮쾯쾰쾱쾲쾳쾴쾵쾶쾷쾸쾹쾺쾻쾼쾽쾾쾿쿀쿁쿂쿃쿄쿅쿆쿇쿈쿉쿊쿋쿌쿍쿎쿏쿐쿑쿒쿓쿔쿕쿖쿗쿘쿙쿚쿛쿜쿝쿞쿟쿠쿡쿢쿣쿤쿥쿦쿧쿨쿩쿪쿫쿬쿭쿮쿯쿰쿱쿲쿳쿴쿵쿶쿷쿸쿹쿺쿻쿼쿽쿾쿿",
       "킀킁킂킃킄킅킆킇킈킉킊킋킌킍킎킏킐킑킒킓킔킕킖킗킘킙킚킛킜킝킞킟킠킡킢킣키킥킦킧킨킩킪킫킬킭킮킯킰킱킲킳킴킵킶킷킸킹킺킻킼킽킾킿타탁탂탃탄탅탆탇탈탉탊탋탌탍탎탏탐탑탒탓탔탕탖탗탘탙탚탛태택탞탟탠탡탢탣탤탥탦탧탨탩탪탫탬탭탮탯탰탱탲탳탴탵탶탷탸탹탺탻탼탽탾탿",
       "톀톁톂톃톄톅톆톇톈톉톊톋톌톍톎톏톐톑톒톓톔톕톖톗톘톙톚톛톜톝톞톟토톡톢톣톤톥톦톧톨톩톪톫톬톭톮톯톰톱톲톳톴통톶톷톸톹톺톻톼톽톾톿퇀퇁퇂퇃퇄퇅퇆퇇퇈퇉퇊퇋퇌퇍퇎퇏퇐퇑퇒퇓퇔퇕퇖퇗퇘퇙퇚퇛퇜퇝퇞퇟퇠퇡퇢퇣퇤퇥퇦퇧퇨퇩퇪퇫퇬퇭퇮퇯퇰퇱퇲퇳퇴퇵퇶퇷퇸퇹퇺퇻퇼퇽퇾퇿",
       "튀튁튂튃튄튅튆튇튈튉튊튋튌튍튎튏튐튑튒튓튔튕튖튗튘튙튚튛튜튝튞튟튠튡튢튣튤튥튦튧튨튩튪튫튬튭튮튯튰튱튲튳튴튵튶튷트특튺튻튼튽튾튿틀틁틂틃틄틅틆틇틈틉틊틋틌틍틎틏틐틑틒틓틔틕틖틗틘틙틚틛틜틝틞틟틠틡틢틣틤틥틦틧틨틩틪틫틬틭틮틯티틱틲틳틴틵틶틷틸틹틺틻틼틽틾틿",
       "펀펁펂펃펄펅펆펇펈펉펊펋펌펍펎펏펐펑펒펓펔펕펖펗페펙펚펛펜펝펞펟펠펡펢펣펤펥펦펧펨펩펪펫펬펭펮펯펰펱펲펳펴펵펶펷편펹펺펻펼펽펾펿폀폁폂폃폄폅폆폇폈평폊폋폌폍폎폏폐폑폒폓폔폕폖폗폘폙폚폛폜폝폞폟폠폡폢폣폤폥폦폧폨폩폪폫포폭폮폯폰폱폲폳폴폵폶폷폸폹폺폻폼폽폾폿",
       "풀풁풂풃풄풅풆풇품풉풊풋풌풍풎풏풐풑풒풓풔풕풖풗풘풙풚풛풜풝풞풟풠풡풢풣풤풥풦풧풨풩풪풫풬풭풮풯풰풱풲풳풴풵풶풷풸풹풺풻풼풽풾풿퓀퓁퓂퓃퓄퓅퓆퓇퓈퓉퓊퓋퓌퓍퓎퓏퓐퓑퓒퓓퓔퓕퓖퓗퓘퓙퓚퓛퓜퓝퓞퓟퓠퓡퓢퓣퓤퓥퓦퓧퓨퓩퓪퓫퓬퓭퓮퓯퓰퓱퓲퓳퓴퓵퓶퓷퓸퓹퓺퓻퓼퓽퓾퓿",
       "햀햁햂햃햄햅햆햇했행햊햋햌햍햎햏햐햑햒햓햔햕햖햗햘햙햚햛햜햝햞햟햠햡햢햣햤향햦햧햨햩햪햫햬햭햮햯햰햱햲햳햴햵햶햷햸햹햺햻햼햽햾햿헀헁헂헃헄헅헆헇허헉헊헋헌헍헎헏헐헑헒헓헔헕헖헗험헙헚헛헜헝헞헟헠헡헢헣헤헥헦헧헨헩헪헫헬헭헮헯헰헱헲헳헴헵헶헷헸헹헺헻헼헽헾헿",
       "횀횁횂횃횄횅횆횇횈횉횊횋회획횎횏횐횑횒횓횔횕횖횗횘횙횚횛횜횝횞횟횠횡횢횣횤횥횦횧효횩횪횫횬횭횮횯횰횱횲횳횴횵횶횷횸횹횺횻횼횽횾횿훀훁훂훃후훅훆훇훈훉훊훋훌훍훎훏훐훑훒훓훔훕훖훗훘훙훚훛훜훝훞훟훠훡훢훣훤훥훦훧훨훩훪훫훬훭훮훯훰훱훲훳훴훵훶훷훸훹훺훻훼훽훾훿",
       "힀힁힂힃힄힅힆힇히힉힊힋힌힍힎힏힐힑힒힓힔힕힖힗힘힙힚힛힜힝힞힟힠힡힢힣힤힥힦힧힨힩힪힫힬힭힮힯ힰힱힲힳힴힵힶힷힸힹힺힻힼힽힾힿퟀퟁퟂퟃퟄퟅퟆ퟇퟈퟉퟊ퟋퟌퟍퟎퟏퟐퟑퟒퟓퟔퟕퟖퟗퟘퟙퟚퟛퟜퟝퟞퟟퟠퟡퟢퟣퟤퟥퟦퟧퟨퟩퟪퟫퟬퟭퟮퟯퟰퟱퟲퟳퟴퟵퟶퟷퟸퟹퟺퟻ퟼퟽퟾퟿",
       "𰂀𰒁𰢂𰲃𱂄𱒅𱢆𱲇𲂈𲒉𲢊𲲋𳂌𳒍𳢎𳲏𴂐𴒑𴢒𴲓𵂔𵒕𵢖𵲗𶂘𶒙𶢚𶲛𷂜𷒝𷢞𷲟𸂠𸒡𸢢𸲣𹂤𹒥𹢦𹲧𺂨𺒩𺢪𺲫𻂬𻒭𻢮𻲯𼂰𼒱𼢲𼲳𽂴𽒵𽢶𽲷𾂸𾒹𾢺𾲻𿂼𿒽𿢾𿲿񀃀񀓁񀣂񀳃񁃄񁓅񁣆񁳇񂃈񂓉񂣊񂳋񃃌񃓍񃣎񃳏񄃐񄓑񄣒񄳓񅃔񅓕񅣖񅳗񆃘񆓙񆣚񆳛񇃜񇓝񇣞񇳟񈃠񈓡񈣢񈳣񉃤񉓥񉣦񉳧񊃨񊓩񊣪񊳫񋃬񋓭񋣮񋳯񌃰񌓱񌣲񌳳񍃴񍓵񍣶񍳷񎃸񎓹񎣺񎳻񏃼񏓽񏣾񏳿",
       "񰆀񰖁񰦂񰶃񱆄񱖅񱦆񱶇񲆈񲖉񲦊񲶋񳆌񳖍񳦎񳶏񴆐񴖑񴦒񴶓񵆔񵖕񵦖񵶗񶆘񶖙񶦚񶶛񷆜񷖝񷦞񷶟񸆠񸖡񸦢񸶣񹆤񹖥񹦦񹶧񺆨񺖩񺦪񺶫񻆬񻖭񻦮񻶯񼆰񼖱񼦲񼶳񽆴񽖵񽦶񽶷񾆸񾖹񾦺񾶻񿆼񿖽񿦾񿶿򀇀򀗁򀧂򀷃򁇄򁗅򁧆򁷇򂇈򂗉򂧊򂷋򃇌򃗍򃧎򃷏򄇐򄗑򄧒򄷓򅇔򅗕򅧖򅷗򆇘򆗙򆧚򆷛򇇜򇗝򇧞򇷟򈇠򈗡򈧢򈷣򉇤򉗥򉧦򉷧򊇨򊗩򊧪򊷫򋇬򋗭򋧮򋷯򌇰򌗱򌧲򌷳򍇴򍗵򍧶򍷷򎇸򎗹򎧺򎷻򏇼򏗽򏧾򏷿",
       "򰊀򰚁򰪂򰺃򱊄򱚅򱪆򱺇򲊈򲚉򲪊򲺋򳊌򳚍򳪎򳺏򴊐򴚑򴪒򴺓򵊔򵚕򵪖򵺗򶊘򶚙򶪚򶺛򷊜򷚝򷪞򷺟򸊠򸚡򸪢򸺣򹊤򹚥򹪦򹺧򺊨򺚩򺪪򺺫򻊬򻚭򻪮򻺯򼊰򼚱򼪲򼺳򽊴򽚵򽪶򽺷򾊸򾚹򾪺򾺻򿊼򿚽򿪾򿺿󀋀󀛁󀫂󀻃󁋄󁛅󁫆󁻇󂋈󂛉󂫊󂻋󃋌󃛍󃫎󃻏󄋐󄛑󄫒󄻓󅋔󅛕󅫖󅻗󆋘󆛙󆫚󆻛󇋜󇛝󇫞󇻟󈋠󈛡󈫢󈻣󉋤󉛥󉫦󉻧󊋨󊛩󊫪󊻫󋋬󋛭󋫮󋻯󌋰󌛱󌫲󌻳󍋴󍛵󍫶󍻷󎋸󎛹󎫺󎻻󏋼󏛽󏫾󏻿",
       "󰎀󰞁󰮂󰾃󱎄󱞅󱮆󱾇󲎈󲞉󲮊󲾋󳎌󳞍󳮎󳾏󴎐󴞑󴮒󴾓󵎔󵞕󵮖󵾗󶎘󶞙󶮚󶾛󷎜󷞝󷮞󷾟󸎠󸞡󸮢󸾣󹎤󹞥󹮦󹾧󺎨󺞩󺮪󺾫󻎬󻞭󻮮󻾯󼎰󼞱󼮲󼾳󽎴󽞵󽮶󽾷󾎸󾞹󾮺󾾻󿎼󿞽󿮾󿾿􀏀􀟁􀯂􀿃􁏄􁟅􁯆􁿇􂏈􂟉􂯊􂿋􃏌􃟍􃯎􃿏􄏐􄟑􄯒􄿓􅏔􅟕􅯖􅿗􆏘􆟙􆯚􆿛􇏜􇟝􇯞􇿟􈏠􈟡􈯢􈿣􉏤􉟥􉯦􉿧􊏨􊟩􊯪􊿫􋏬􋟭􋯮􋿯􌏰􌟱􌯲􌿳􍏴􍟵􍯶􍿷􎏸􎟹􎯺􎿻􏏼􏟽􏯾􏿿",
       "",
       "",
       "",
       "",
       "",
       "",
       "",
       "",
       "",
       "",
       "",
       "",
       "",
       "",
       "",
       "",
       "",
       "",
       "",
       "",
       "",
       "",
       "",
       "",
       "",
       "",
       "",
       "",
       "",
       "呂女廬旅濾礪閭驪麗黎力曆歷轢年憐戀撚漣煉璉秊練聯輦蓮連鍊列劣咽烈裂說廉念捻殮簾獵令囹寧嶺怜玲瑩羚聆鈴零靈領例禮醴隸惡了僚寮尿料樂燎療蓼遼龍暈阮劉杻柳流溜琉留硫紐類六戮陸倫崙淪輪律慄栗率隆利吏履易李梨泥理痢罹裏裡里離匿溺吝燐璘藺隣鱗麟林淋臨立笠粒狀炙識什茶刺",
       "婢嬨廒廙彩徭惘慎愈憎慠懲戴揄搜摒敖晴朗望杖歹殺流滛滋漢瀞煮瞧爵犯猪瑱甆画瘝瘟益盛直睊着磌窱節类絛練缾者荒華蝹襁覆視調諸請謁諾諭謹變贈輸遲醙鉶陼難靖韛響頋頻鬒龜𢡊𢡄𣏕㮝䀘䀹𥉉𥳐𧻓齃龎﫚﫛﫜﫝﫞﫟﫠﫡﫢﫣﫤﫥﫦﫧﫨﫩﫪﫫﫬﫭﫮﫯﫰﫱﫲﫳﫴﫵﫶﫷﫸﫹﫺﫻﫼﫽﫾﫿",
       "ﮀﮁﮂﮃﮄﮅﮆﮇﮈﮉﮊﮋﮌﮍﮎﮏﮐﮑﮒﮓﮔﮕﮖﮗﮘﮙﮚﮛﮜﮝﮞﮟﮠﮡﮢﮣﮤﮥﮦﮧﮨﮩﮪﮫﮬﮭﮮﮯﮰﮱ﮲﮳﮴﮵﮶﮷﮸﮹﮺﮻﮼﮽﮾﮿﯀﯁﯂﯃﯄﯅﯆﯇﯈﯉﯊﯋﯌﯍﯎﯏﯐﯑﯒ﯓﯔﯕﯖﯗﯘﯙﯚﯛﯜﯝﯞﯟﯠﯡﯢﯣﯤﯥﯦﯧﯨﯩﯪﯫﯬﯭﯮﯯﯰﯱﯲﯳﯴﯵﯶﯷﯸﯹﯺﯻﯼﯽﯾﯿ",
       "ﲀﲁﲂﲃﲄﲅﲆﲇﲈﲉﲊﲋﲌﲍﲎﲏﲐﲑﲒﲓﲔﲕﲖﲗﲘﲙﲚﲛﲜﲝﲞﲟﲠﲡﲢﲣﲤﲥﲦﲧﲨﲩﲪﲫﲬﲭﲮﲯﲰﲱﲲﲳﲴﲵﲶﲷﲸﲹﲺﲻﲼﲽﲾﲿﳀﳁﳂﳃﳄﳅﳆﳇﳈﳉﳊﳋﳌﳍﳎﳏﳐﳑﳒﳓﳔﳕﳖﳗﳘﳙﳚﳛﳜﳝﳞﳟﳠﳡﳢﳣﳤﳥﳦﳧﳨﳩﳪﳫﳬﳭﳮﳯﳰﳱﳲﳳﳴﳵﳶﳷﳸﳹﳺﳻﳼﳽﳾﳿ",
       "ﶀﶁﶂﶃﶄﶅﶆﶇﶈﶉﶊﶋﶌﶍﶎﶏ﶐﶑ﶒﶓﶔﶕﶖﶗﶘﶙﶚﶛﶜﶝﶞﶟﶠﶡﶢﶣﶤﶥﶦﶧﶨﶩﶪﶫﶬﶭﶮﶯﶰﶱﶲﶳﶴﶵﶶﶷﶸﶹﶺﶻﶼﶽﶾﶿﷀﷁﷂﷃﷄﷅﷆﷇ﷈﷉﷊﷋﷌﷍﷎﷏﷐﷑﷒﷓﷔﷕﷖﷗﷘﷙﷚﷛﷜﷝﷞﷟﷠﷡﷢﷣﷤﷥﷦﷧﷨﷩﷪﷫﷬﷭﷮﷯ﷰﷱﷲﷳﷴﷵﷶﷷﷸﷹﷺﷻ﷼﷽﷾﷿",
       "ﺀﺁﺂﺃﺄﺅﺆﺇﺈﺉﺊﺋﺌﺍﺎﺏﺐﺑﺒﺓﺔﺕﺖﺗﺘﺙﺚﺛﺜﺝﺞﺟﺠﺡﺢﺣﺤﺥﺦﺧﺨﺩﺪﺫﺬﺭﺮﺯﺰﺱﺲﺳﺴﺵﺶﺷﺸﺹﺺﺻﺼﺽﺾﺿﻀﻁﻂﻃﻄﻅﻆﻇﻈﻉﻊﻋﻌﻍﻎﻏﻐﻑﻒﻓﻔﻕﻖﻗﻘﻙﻚﻛﻜﻝﻞﻟﻠﻡﻢﻣﻤﻥﻦﻧﻨﻩﻪﻫﻬﻭﻮﻯﻰﻱﻲﻳﻴﻵﻶﻷﻸﻹﻺﻻﻼ﻽﻾﻿",
       "ﾀﾁﾂﾃﾄﾅﾆﾇﾈﾉﾊﾋﾌﾍﾎﾏﾐﾑﾒﾓﾔﾕﾖﾗﾘﾙﾚﾛﾜﾝﾞﾟﾠﾡﾢﾣﾤﾥﾦﾧﾨﾩﾪﾫﾬﾭﾮﾯﾰﾱﾲﾳﾴﾵﾶﾷﾸﾹﾺﾻﾼﾽﾾ﾿￀￁ￂￃￄￅￆￇ￈￉ￊￋￌￍￎￏ￐￑ￒￓￔￕￖￗ￘￙ￚￛￜ￝￞￟￠￡￢￣￤￥￦￧￨￩￪￫￬￭￮￯￰￱￲￳￴￵￶￷￸￹￺￻￼�￾￿" >>

\* the character of a code unit that is written as itself; latin1 holds
\* the characters U+0000 to U+00FF in their order (a space stands in the
\* places of U+0000, U+001A and U+001B, and U+001A in the place of the
\* backquote)
CharOf ==
    LET latin1 ==
        " \t\n\f\r  "
        \o " !\"#$%&'()*+,-./0123456789:;<=>?"
        \o "@ABCDEFGHIJKLMNOPQRSTUVWXYZ[\\]^_"
        \o "abcdefghijklmnopqrstuvwxyz{|}~"
        \o ""
        \o " ¡¢£¤¥¦§¨©ª«¬­®¯°±²³´µ¶·¸¹º»¼½¾¿"
        \o "ÀÁÂÃÄÅÆÇÈÉÊËÌÍÎÏÐÑÒÓÔÕÖ×ØÙÚÛÜÝÞß"
        \o "àáâãäåæçèéêëìíîïðñòóôõö÷øùúûüýþÿ"
    IN  [k \in ((1 .. 255) \ {26, 27}) \cup { k \in 256 .. 65535 : k % 256 >= 128 } |->
            LET b == k \div 256
                i == (k % 256) - 127
            IN  IF b = 0 THEN SubSeq(latin1, k + 1, k + 1)
                ELSE IF b \in 216 .. 219 THEN SubSeq(HighChars[b], 2 * i - 1, 2 * i - 1)
                ELSE IF b \in 220 .. 223 THEN SubSeq(HighChars[b - 4], 2 * i, 2 * i)
                ELSE SubSeq(HighChars[b], i, i)]

\* the characters of the code units lo .. hi, each with its code unit
RECURSIVE CodeTable(_, _)
CodeTable(lo, hi) ==
    IF lo = hi
    THEN IF lo \in DOMAIN CharOf THEN CharOf[lo] :> lo ELSE << >>
    ELSE CodeTable(lo, (lo + hi) \div 2) @@ CodeTable((lo + hi) \div 2 + 1, hi)

\* the code unit of a character
CodeOf == CodeTable(1, 65535)

\* the character that begins the two characters of a code unit that is not
\* written as itself
Shift == ""

\* the text of a code unit
UnitText(k) ==
    IF k \in DOMAIN CharOf THEN CharOf[k] ELSE Shift \o CharOf[k + 128]

\* the text of a code point: of its code unit, or of its pair of surrogates
RuneText(r) ==
    IF r < 65536 THEN UnitText(r)
    ELSE UnitText(55296 + (r - 65536) \div 1024)
             \o UnitText(56320 + ((r - 65536) % 1024))

\* the number of characters of the code unit that begins at position j of s
UnitLen(s, j) == IF At(s, j) = Shift THEN 2 ELSE 1

\* the code unit that begins at position j of s
UnitAt(s, j) ==
    IF At(s, j) = Shift THEN CodeOf[At(s, j + 1)] - 128 ELSE CodeOf[At(s, j)]

\* the characters of the code units below U+0020 that are written as
\* themselves, and the second characters of those that are not
ControlChars == { CharOf[k] : k \in (1 .. 31) \ {26, 27} }
ShiftedControls == { CharOf[k + 128] : k \in {0, 26, 27} }

\* the code unit that begins at position j of s is below U+0020
IsControl(s, j) ==
    \/ At(s, j) \in ControlChars
    \/ At(s, j) = Shift /\ At(s, j + 1) \in ShiftedControls

\* a pair of surrogates begins at position j of s
Paired(s, j) ==
    /\ UnitAt(s, j) \in 55296 .. 56319
    /\ j + UnitLen(s, j) <= Len(s)
    /\ UnitAt(s, j + UnitLen(s, j)) \in 56320 .. 57343

\* the number of characters of the code point that begins at position j of
\* s: of its code unit, or of its pair of surrogates
RuneLen(s, j) ==
    IF Paired(s, j)
    THEN UnitLen(s, j) + UnitLen(s, j + UnitLen(s, j))
    ELSE UnitLen(s, j)

\* the code point that begins at position j of s
RuneAt(s, j) ==
    IF Paired(s, j)
    THEN 65536 + 1024 * (UnitAt(s, j) - 55296)
             + (UnitAt(s, j + UnitLen(s, j)) - 56320)
    ELSE UnitAt(s, j)

\* the number of bytes a code point takes in UTF-8
ByteWidth(r) ==
    IF r < 128 THEN 1
    ELSE IF r < 2048 THEN 2
    ELSE IF r < 65536 THEN 3
    ELSE 4

\* len(s): the number of bytes
RECURSIVE ByteLen(_)
ByteLen(s) ==
    IF s = "" THEN 0
    ELSE ByteWidth(RuneAt(s, 1)) + ByteLen(SubSeq(s, RuneLen(s, 1) + 1, Len(s)))

\* the number of characters of the last code unit of s
LastUnitLen(s) ==
    IF Len(s) >= 2 /\ At(s, Len(s) - 1) = Shift THEN 2 ELSE 1

\* the number of characters of the last code point of s
LastRuneLen(s) ==
    IF /\ Len(s) > LastUnitLen(s)
       /\ UnitAt(s, Len(s) - LastUnitLen(s) + 1) \in 56320 .. 57343
       /\ UnitAt(s, Len(s) - LastUnitLen(s)
                        - LastUnitLen(SubSeq(s, 1, Len(s) - LastUnitLen(s))) + 1)
              \in 55296 .. 56319
    THEN LastUnitLen(s) + LastUnitLen(SubSeq(s, 1, Len(s) - LastUnitLen(s)))
    ELSE LastUnitLen(s)

\* s[len(s)-n:] for n <= len(s): the last n bytes.  Where the cut falls
\* inside a character, each byte left of that character is written U+FFFD.
RECURSIVE LastBytes(_, _)
LastBytes(s, n) ==
    IF n = 0 THEN ""
    ELSE IF ByteWidth(RuneAt(s, Len(s) - LastRuneLen(s) + 1)) <= n
    THEN LastBytes(SubSeq(s, 1, Len(s) - LastRuneLen(s)),
                   n - ByteWidth(RuneAt(s, Len(s) - LastRuneLen(s) + 1)))
             \o SubSeq(s, Len(s) - LastRuneLen(s) + 1, Len(s))
    ELSE LastBytes(s, n - 1) \o CharOf[65533]

\* the value of a hexadecimal digit, of either case
HexVal ==
    LET digits == "0123456789abcdefABCDEF"
    IN  [c \in { SubSeq(digits, k, k) : k \in 1 .. 22 } |->
            LET k == CHOOSE k \in 1 .. 22 : SubSeq(digits, k, k) = c
            IN  IF k <= 16 THEN k - 1 ELSE k - 7]

\* a number below 65536 in four hexadecimal digits
Hex4(n) ==
    LET digit(k) == SubSeq("0123456789abcdef", k + 1, k + 1)
    IN  digit(n \div 4096) \o digit((n \div 256) % 16)
            \o digit((n \div 16) % 16) \o digit(n % 16)

\* unicode.IsSpace: the texts of the white space characters
UnicodeSpace ==
    { UnitText(k) : k \in {9, 10, 11, 12, 13, 32, 133, 160, 5760}
                          \cup (8192 .. 8202)
                          \cup {8232, 8233, 8239, 8287, 12288} }

HasPrefix(s, prefix) ==
    Len(s) >= Len(prefix) /\ SubSeq(s, 1, Len(prefix)) = prefix

HasSuffix(s, suffix) ==
    Len(s) >= Len(suffix) /\ SubSeq(s, Len(s) - Len(suffix) + 1, Len(s)) = suffix

TrimPrefix(s, prefix) ==
    IF HasPrefix(s, prefix) THEN SubSeq(s, Len(prefix) + 1, Len(s)) ELSE s

TrimSuffix(s, suffix) ==
    IF HasSuffix(s, suffix) THEN SubSeq(s, 1, Len(s) - Len(suffix)) ELSE s

\* the least member of a set of positions
MinOf(S) == CHOOSE x \in S : \A y \in S : x <= y

RECURSIVE TrimLeft(_)
TrimLeft(s) ==
    IF Len(s) > 0 /\ SubSeq(s, 1, UnitLen(s, 1)) \in UnicodeSpace
    THEN TrimLeft(SubSeq(s, UnitLen(s, 1) + 1, Len(s)))
    ELSE s

RECURSIVE TrimRight(_)
TrimRight(s) ==
    IF Len(s) > 0 /\ SubSeq(s, Len(s) - LastUnitLen(s) + 1, Len(s)) \in UnicodeSpace
    THEN TrimRight(SubSeq(s, 1, Len(s) - LastUnitLen(s)))
    ELSE s

\* strings.TrimSpace
TrimSpace(s) == TrimRight(TrimLeft(s))

\* The Markdown fence: three backquotes (the backquote is CharOf[96])
Fence == CharOf[96] \o CharOf[96] \o CharOf[96]

\* cleanJSONResponse
CleanJSONResponse(text) ==
    LET t0 == TrimSpace(text)
        t1 == IF HasPrefix(t0, Fence \o "json")
              THEN TrimSpace(TrimPrefix(t0, Fence \o "json")) ELSE t0
        t2 == IF HasPrefix(t1, Fence)
              THEN TrimSpace(TrimPrefix(t1, Fence)) ELSE t1
        t3 == IF HasSuffix(t2, Fence)
              THEN TrimSpace(TrimSuffix(t2, Fence)) ELSE t2
    IN  t3

\* encoding/json: white space between tokens
JSONSpace == { " ", "\t", "\n", "\r" }

\* encoding/json: the character an escape sequence of two characters
\* stands for
Unescape ==
    [c \in { "\"", "\\", "/", "b", "f", "n", "r", "t" } |->
        CASE c = "b" -> CharOf[8]
          [] c = "f" -> "\f"
          [] c = "n" -> "\n"
          [] c = "r" -> "\r"
          [] c = "t" -> "\t"
          [] OTHER -> c]

Digits == { "0", "1", "2", "3", "4", "5", "6", "7", "8", "9" }

\* a token that could not be read
BadToken == [ok |-> FALSE, kind |-> "", val |-> "", next |-> 0]

\* the position after the white space that begins at i
RECURSIVE SkipSpace(_, _)
SkipSpace(s, i) ==
    IF i <= Len(s) /\ At(s, i) \in JSONSpace THEN SkipSpace(s, i + 1) ELSE i

\* the position after the digits that begin at i
RECURSIVE SkipDigits(_, _)
SkipDigits(s, i) ==
    IF i <= Len(s) /\ At(s, i) \in Digits THEN SkipDigits(s, i + 1) ELSE i

\* the number the four hexadecimal digits after position i stand for, -1
\* where there are no four hexadecimal digits
HexCode(s, i) ==
    IF i + 4 <= Len(s) /\ \A k \in 1 .. 4 : At(s, i + k) \in DOMAIN HexVal
    THEN 4096 * HexVal[At(s, i + 1)] + 256 * HexVal[At(s, i + 2)]
             + 16 * HexVal[At(s, i + 3)] + HexVal[At(s, i + 4)]
    ELSE -1

\* the escape \uXXXX whose u is at position j: the text it stands for and
\* the position after it.  A high surrogate with the escape of a low
\* surrogate after it is the character of the pair; a surrogate without
\* its pair is U+FFFD.
UnicodeText(s, j, code, low) ==
    IF code \in 55296 .. 56319 /\ low \in 56320 .. 57343
    THEN [text |-> UnitText(code) \o UnitText(low), next |-> j + 11]
    ELSE IF code \in 55296 .. 57343
    THEN [text |-> CharOf[65533], next |-> j + 5]
    ELSE [text |-> UnitText(code), next |-> j + 5]

UnicodeEscape(s, j) ==
    UnicodeText(s, j, HexCode(s, j),
                IF j + 6 <= Len(s) /\ SubSeq(s, j + 5, j + 6) = "\\u"
                THEN HexCode(s, j + 6) ELSE -1)

RECURSIVE ScanString(_, _, _)

\* a string literal at the backslash at position j; plain is the text read
\* so far
ScanEscape(s, j, plain) ==
    IF j + 1 > Len(s) THEN BadToken
    ELSE IF At(s, j + 1) \in DOMAIN Unescape
    THEN ScanString(s, j + 2, plain \o Unescape[At(s, j + 1)])
    ELSE IF At(s, j + 1) = "u" /\ HexCode(s, j + 1) >= 0
    THEN LET e == UnicodeEscape(s, j + 1)
         IN  ScanString(s, e.next, plain \o e.text)
    ELSE BadToken

\* a string literal at its first stop, at position j
ScanStringStop(s, i, j, acc) ==
    IF At(s, j) = "\""
    THEN [ok |-> TRUE, kind |-> "string", val |-> acc \o SubSeq(s, i, j - 1),
          next |-> j + 1]
    ELSE IF At(s, j) = "\\"
    THEN ScanEscape(s, j, acc \o SubSeq(s, i, j - 1))
    ELSE BadToken

\* a string literal, read from position i inside it: the characters up to
\* the next quote, escape or control character (a character below U+0020)
\* are taken as they are
ScanString(s, i, acc) ==
    LET stops == { j \in i .. Len(s) :
                     At(s, j) \in {"\"", "\\"} \/ IsControl(s, j) }
    IN  IF stops = {} THEN BadToken
        ELSE ScanStringStop(s, i, MinOf(stops), acc)

\* a literal word (null, true, false)
ScanLiteral(s, i, word, kind) ==
    IF i + Len(word) - 1 <= Len(s) /\ SubSeq(s, i, i + Len(word) - 1) = word
    THEN [ok |-> TRUE, kind |-> kind, val |-> "", next |-> i + Len(word)]
    ELSE BadToken

\* a number from its fraction on: a point and digits, then e or E, a sign
\* and digits
ScanFraction(s, i) ==
    LET point == i <= Len(s) /\ At(s, i) = "."
        e == IF point THEN SkipDigits(s, i + 1) ELSE i
        exponent == e <= Len(s) /\ At(s, e) \in {"e", "E"}
        d == IF e + 1 <= Len(s) /\ At(s, e + 1) \in {"+", "-"} THEN e + 2 ELSE e + 1
    IN  IF point /\ e = i + 1 THEN BadToken
        ELSE IF ~exponent
        THEN [ok |-> TRUE, kind |-> "number", val |-> "", next |-> e]
        ELSE IF SkipDigits(s, d) = d THEN BadToken
        ELSE [ok |-> TRUE, kind |-> "number", val |-> "", next |-> SkipDigits(s, d)]

\* a number: a minus sign, the integer part (0, or a digit from 1 to 9 and
\* more digits), a fraction, an exponent
ScanNumber(s, i) ==
    LET d == IF At(s, i) = "-" THEN i + 1 ELSE i
    IN  IF SkipDigits(s, d) = d THEN BadToken
        ELSE IF At(s, d) = "0" THEN ScanFraction(s, d + 1)
        ELSE ScanFraction(s, SkipDigits(s, d))

RECURSIVE ScanValue(_, _)
RECURSIVE ScanMembers(_, _, _)

\* an array after an element: the end of the array or a comma and the next
\* element
RECURSIVE ScanAfterElement(_, _)
ScanAfterElement(s, element) ==
    IF ~element.ok THEN BadToken
    ELSE LET after == SkipSpace(s, element.next)
         IN  IF after > Len(s) THEN BadToken
             ELSE IF At(s, after) = "]"
             THEN [ok |-> TRUE, kind |-> "array", val |-> "", next |-> after + 1]
             ELSE IF At(s, after) = ","
             THEN ScanAfterElement(s, ScanValue(s, SkipSpace(s, after + 1)))
             ELSE BadToken

\* an array, from the position i after its bracket and the white space
ScanElements(s, i) ==
    IF i <= Len(s) /\ At(s, i) = "]"
    THEN [ok |-> TRUE, kind |-> "array", val |-> "", next |-> i + 1]
    ELSE ScanAfterElement(s, ScanValue(s, i))

\* an object that is a value inside another value, from the position i
\* after its brace and the white space: its members are read and dropped
ScanObject(s, i) ==
    IF i <= Len(s) /\ At(s, i) = "}"
    THEN [ok |-> TRUE, kind |-> "object", val |-> "", next |-> i + 1]
    ELSE LET m == ScanMembers(s, i, << >>)
         IN  IF m.ok
             THEN [ok |-> TRUE, kind |-> "object", val |-> "", next |-> m.next]
             ELSE BadToken

\* a value: a string, a number, true, false, null, an array or an object
ScanValue(s, i) ==
    IF i > Len(s) THEN BadToken
    ELSE CASE At(s, i) = "\"" -> ScanString(s, i + 1, "")
           [] At(s, i) = "n" -> ScanLiteral(s, i, "null", "null")
           [] At(s, i) = "t" -> ScanLiteral(s, i, "true", "bool")
           [] At(s, i) = "f" -> ScanLiteral(s, i, "false", "bool")
           [] At(s, i) \in Digits \cup {"-"} -> ScanNumber(s, i)
           [] At(s, i) = "[" -> ScanElements(s, SkipSpace(s, i + 1))
           [] At(s, i) = "{" -> ScanObject(s, SkipSpace(s, i + 1))
           [] OTHER -> BadToken

\* the members of an object could not be read
BadMembers == [ok |-> FALSE, members |-> << >>, next |-> 0]

\* after a member, at position after: the end of the object or a comma and
\* the next member; more holds the members read so far
ScanAfterMember(s, after, more) ==
    IF after > Len(s) THEN BadMembers
    ELSE IF At(s, after) = "}"
    THEN [ok |-> TRUE, members |-> more, next |-> after + 1]
    ELSE IF At(s, after) = ","
    THEN ScanMembers(s, SkipSpace(s, after + 1), more)
    ELSE BadMembers

\* a member whose key and value have been read
ScanMemberValue(s, key, value, acc) ==
    IF ~value.ok THEN BadMembers
    ELSE ScanAfterMember(s, SkipSpace(s, value.next),
                         Append(acc, [key |-> key.val, kind |-> value.kind,
                                      val |-> value.val]))

\* a member whose key has been read: the colon, at position colon, and the
\* value
ScanMemberColon(s, key, colon, acc) ==
    IF colon <= Len(s) /\ At(s, colon) = ":"
    THEN ScanMemberValue(s, key, ScanValue(s, SkipSpace(s, colon + 1)), acc)
    ELSE BadMembers

\* a member, from its key on
ScanMember(s, key, acc) ==
    IF ~key.ok THEN BadMembers
    ELSE ScanMemberColon(s, key, SkipSpace(s, key.next), acc)

\* the members of an object, read from the first key; acc holds the members
\* read so far
ScanMembers(s, i, acc) ==
    IF i > Len(s) \/ At(s, i) # "\"" THEN BadMembers
    ELSE ScanMember(s, ScanString(s, i + 1, ""), acc)

\* a text that is not valid JSON
BadJSON == [ok |-> FALSE, kind |-> "", members |-> << >>, next |-> 0]

\* an object whose members have been read
DecodeMembers(m) ==
    [ok |-> m.ok, kind |-> "object", members |-> m.members, next |-> m.next]

\* an object, from the position j after its brace and the white space
DecodeObject(s, j) ==
    IF j <= Len(s) /\ At(s, j) = "}"
    THEN [ok |-> TRUE, kind |-> "object", members |-> << >>, next |-> j + 1]
    ELSE DecodeMembers(ScanMembers(s, j, << >>))

\* the top-level value that begins at position i
DecodeValue(s, i) ==
    IF i > Len(s) THEN BadJSON
    ELSE IF At(s, i) = "{" THEN DecodeObject(s, SkipSpace(s, i + 1))
    ELSE LET v == ScanValue(s, i)
         IN  [ok |-> v.ok, kind |-> v.kind, members |-> << >>, next |-> v.next]

\* nothing but white space may follow the top-level value
DecodeWhole(s, top) ==
    IF top.ok /\ SkipSpace(s, top.next) = Len(s) + 1 THEN top ELSE BadJSON

\* the top-level value of a JSON text: whether the text is valid JSON, the
\* kind of the value and, for an object, its members
Decode(s) == DecodeWhole(s, DecodeValue(s, SkipSpace(s, 1)))

\* encoding/json matches the keys of an object to the fields of the struct
\* without regard to case: by the simple case folding of Unicode, under
\* which the characters that fold to a letter of a field name are the
\* letter in its other case, U+017F (the long s, to s) and U+212A (the
\* Kelvin sign, to k)
LowerOf ==
    LET upper == << "A", "B", "C", "D", "E", "F", "G", "H", "I", "J", "K", "L", "M",
                    "N", "O", "P", "Q", "R", "S", "T", "U", "V", "W", "X", "Y", "Z" >>
        lower == << "a", "b", "c", "d", "e", "f", "g", "h", "i", "j", "k", "l", "m",
                    "n", "o", "p", "q", "r", "s", "t", "u", "v", "w", "x", "y", "z" >>
    IN  [c \in { upper[k] : k \in 1 .. 26 } |->
            lower[CHOOSE k \in 1 .. 26 : upper[k] = c]]

ToLower(c) == IF c \in DOMAIN LowerOf THEN LowerOf[c] ELSE c

LongS == UnitText(383)

KelvinSign == UnitText(8490)

RECURSIVE Fold(_)
Fold(s) ==
    IF Len(s) = 0 THEN ""
    ELSE IF HasPrefix(s, LongS) THEN "s" \o Fold(SubSeq(s, Len(LongS) + 1, Len(s)))
    ELSE IF HasPrefix(s, KelvinSign)
    THEN "k" \o Fold(SubSeq(s, Len(KelvinSign) + 1, Len(s)))
    ELSE ToLower(At(s, 1)) \o Fold(SubSeq(s, 2, Len(s)))

\* the zero value of geminiResponse
ZeroGeminiResponse ==
    [Command |-> "", Safety |-> "", Explanation |-> "", err |-> FALSE]

\* the field of geminiResponse a key names ("" for none)
FieldOf(key) ==
    CASE key = "command" -> "Command"
      [] key = "safety" -> "Safety"
      [] key = "explanation" -> "Explanation"
      [] OTHER -> ""

\* a member is stored in its field; a null leaves the field as it is, a
\* number or a boolean cannot be stored in a string field
StoreMember(m, field, r) ==
    IF field = "" \/ m.kind = "null" THEN r
    ELSE IF m.kind = "string" THEN [r EXCEPT ![field] = m.val]
    ELSE [r EXCEPT !.err = TRUE]

\* the members are stored in the fields, in their order
RECURSIVE StoreMembers(_, _)
StoreMembers(members, r) ==
    IF members = << >> THEN r
    ELSE StoreMembers(Tail(members),
                      StoreMember(Head(members), FieldOf(Fold(Head(members).key)), r))

\* the decoded value is stored in a geminiResponse
StoreDecoded(d) ==
    IF ~d.ok THEN [ZeroGeminiResponse EXCEPT !.err = TRUE]
    ELSE IF d.kind = "null" THEN ZeroGeminiResponse
    ELSE IF d.kind # "object" THEN [ZeroGeminiResponse EXCEPT !.err = TRUE]
    ELSE StoreMembers(d.members, ZeroGeminiResponse)

\* json.Unmarshal([]byte(text), &geminiResp)
Unmarshal(text) == StoreDecoded(Decode(text))

\* the zero value of GenerateResponse (Command, SafetyLevel)
NoResponse == [Command |-> "", SafetyLevel |-> Safe]

\* The mutant of SafetyLevelOf: an unknown value is taken as Safe.
SafetyLevelOfDefaultSafe(safety) ==
    IF safety = "ATTENTION" THEN Attention ELSE Safe

\* parseGenerateResponse: switch geminiResp.Safety
SafetyLevelOf(safety) ==
    CASE safety = "SAFE" -> Safe
      [] safety = "ATTENTION" -> Attention
      [] OTHER -> Attention

\* resp.Candidates[0].Content is nil (Content is a pointer, and a candidate
\* of the API may come without one)
NilContent(resp) == resp.candidates > 0 /\ ~resp.content

\* GeminiClient.parseGenerateResponse: the response and the error ("" for
\* nil), or the panic of resp.Candidates[0].Content.Parts on a nil Content
\* (nothing is returned)
ParseGenerateResponse(resp) ==
    IF resp.candidates = 0
    THEN [response |-> NoResponse, err |-> "no content returned from API",
          panics |-> FALSE]
    ELSE IF NilContent(resp)
    THEN [response |-> NoResponse, err |-> "", panics |-> TRUE]
    ELSE IF resp.parts = 0
    THEN [response |-> NoResponse, err |-> "no content returned from API",
          panics |-> FALSE]
    ELSE IF resp.text = ""
    THEN [response |-> NoResponse, err |-> "empty response text", panics |-> FALSE]
    ELSE LET geminiResp == Unmarshal(CleanJSONResponse(resp.text))
         IN  IF geminiResp.err
             THEN [response |-> NoResponse, err |-> "failed to parse JSON response: %w",
                   panics |-> FALSE]
             ELSE [response |-> [Command |-> geminiResp.Command,
                                 SafetyLevel |-> SafetyLevelOf(geminiResp.Safety)],
                   err |-> "", panics |-> FALSE]

\* the text of a string as a JSON string literal: the characters up to the
\* next one that a string literal cannot hold as it is are taken as they
\* are, and that one is written as its escape
RECURSIVE EscapeJSON(_)
EscapeJSON(s) ==
    LET special == { j \in 1 .. Len(s) :
                       At(s, j) \in {"\"", "\\"} \/ IsControl(s, j) }
    IN  IF special = {} THEN s
        ELSE LET j == MinOf(special)
                 c == At(s, j)
                 escape == CASE c = "\"" -> "\\\""
                             [] c = "\\" -> "\\\\"
                             [] c = "\t" -> "\\t"
                             [] c = "\n" -> "\\n"
                             [] c = "\r" -> "\\r"
                             [] c = "\f" -> "\\f"
                             [] c = CharOf[8] -> "\\b"
                             [] OTHER -> "\\u" \o Hex4(UnitAt(s, j))
             IN  SubSeq(s, 1, j - 1) \o escape
                     \o EscapeJSON(SubSeq(s, j + UnitLen(s, j), Len(s)))

\* unicode.IsPrint is true of the letters, marks, numbers, punctuation
\* and symbols and of the space U+0020.  NotPrint16 holds the ranges of the
\* code points below U+10000 that are none of these (Unicode 15.0).
NotPrint16 ==
    << <<0, 31>>, <<127, 160>>, <<173, 173>>, <<888, 889>>, <<896, 899>>,
       <<907, 907>>, <<909, 909>>, <<930, 930>>, <<1328, 1328>>,
       <<1367, 1368>>, <<1419, 1420>>, <<1424, 1424>>, <<1480, 1487>>,
       <<1515, 1518>>, <<1525, 1541>>, <<1564, 1564>>, <<1757, 1757>>,
       <<1806, 1807>>, <<1867, 1868>>, <<1970, 1983>>, <<2043, 2044>>,
       <<2094, 2095>>, <<2111, 2111>>, <<2140, 2141>>, <<2143, 2143>>,
       <<2155, 2159>>, <<2191, 2199>>, <<2274, 2274>>, <<2436, 2436>>,
       <<2445, 2446>>, <<2449, 2450>>, <<2473, 2473>>, <<2481, 2481>>,
       <<2483, 2485>>, <<2490, 2491>>, <<2501, 2502>>, <<2505, 2506>>,
       <<2511, 2518>>, <<2520, 2523>>, <<2526, 2526>>, <<2532, 2533>>,
       <<2559, 2560>>, <<2564, 2564>>, <<2571, 2574>>, <<2577, 2578>>,
       <<2601, 2601>>, <<2609, 2609>>, <<2612, 2612>>, <<2615, 2615>>,
       <<2618, 2619>>, <<2621, 2621>>, <<2627, 2630>>, <<2633, 2634>>,
       <<2638, 2640>>, <<2642, 2648>>, <<2653, 2653>>, <<2655, 2661>>,
       <<2679, 2688>>, <<2692, 2692>>, <<2702, 2702>>, <<2706, 2706>>,
       <<2729, 2729>>, <<2737, 2737>>, <<2740, 2740>>, <<2746, 2747>>,
       <<2758, 2758>>, <<2762, 2762>>, <<2766, 2767>>, <<2769, 2783>>,
       <<2788, 2789>>, <<2802, 2808>>, <<2816, 2816>>, <<2820, 2820>>,
       <<2829, 2830>>, <<2833, 2834>>, <<2857, 2857>>, <<2865, 2865>>,
       <<2868, 2868>>, <<2874, 2875>>, <<2885, 2886>>, <<2889, 2890>>,
       <<2894, 2900>>, <<2904, 2907>>, <<2910, 2910>>, <<2916, 2917>>,
       <<2936, 2945>>, <<2948, 2948>>, <<2955, 2957>>, <<2961, 2961>>,
       <<2966, 2968>>, <<2971, 2971>>, <<2973, 2973>>, <<2976, 2978>>,
       <<2981, 2983>>, <<2987, 2989>>, <<3002, 3005>>, <<3011, 3013>>,
       <<3017, 3017>>, <<3022, 3023>>, <<3025, 3030>>, <<3032, 3045>>,
       <<3067, 3071>>, <<3085, 3085>>, <<3089, 3089>>, <<3113, 3113>>,
       <<3130, 3131>>, <<3141, 3141>>, <<3145, 3145>>, <<3150, 3156>>,
       <<3159, 3159>>, <<3163, 3164>>, <<3166, 3167>>, <<3172, 3173>>,
       <<3184, 3190>>, <<3213, 3213>>, <<3217, 3217>>, <<3241, 3241>>,
       <<3252, 3252>>, <<3258, 3259>>, <<3269, 3269>>, <<3273, 3273>>,
       <<3278, 3284>>, <<3287, 3292>>, <<3295, 3295>>, <<3300, 3301>>,
       <<3312, 3312>>, <<3316, 3327>>, <<3341, 3341>>, <<3345, 3345>>,
       <<3397, 3397>>, <<3401, 3401>>, <<3408, 3411>>, <<3428, 3429>>,
       <<3456, 3456>>, <<3460, 3460>>, <<3479, 3481>>, <<3506, 3506>>,
       <<3516, 3516>>, <<3518, 3519>>, <<3527, 3529>>, <<3531, 3534>>,
       <<3541, 3541>>, <<3543, 3543>>, <<3552, 3557>>, <<3568, 3569>>,
       <<3573, 3584>>, <<3643, 3646>>, <<3676, 3712>>, <<3715, 3715>>,
       <<3717, 3717>>, <<3723, 3723>>, <<3748, 3748>>, <<3750, 3750>>,
       <<3774, 3775>>, <<3781, 3781>>, <<3783, 3783>>, <<3791, 3791>>,
       <<3802, 3803>>, <<3808, 3839>>, <<3912, 3912>>, <<3949, 3952>>,
       <<3992, 3992>>, <<4029, 4029>>, <<4045, 4045>>, <<4059, 4095>>,
       <<4294, 4294>>, <<4296, 4300>>, <<4302, 4303>>, <<4681, 4681>>,
       <<4686, 4687>>, <<4695, 4695>>, <<4697, 4697>>, <<4702, 4703>>,
       <<4745, 4745>>, <<4750, 4751>>, <<4785, 4785>>, <<4790, 4791>>,
       <<4799, 4799>>, <<4801, 4801>>, <<4806, 4807>>, <<4823, 4823>>,
       <<4881, 4881>>, <<4886, 4887>>, <<4955, 4956>>, <<4989, 4991>>,
       <<5018, 5023>>, <<5110, 5111>>, <<5118, 5119>>, <<5760, 5760>>,
       <<5789, 5791>>, <<5881, 5887>>, <<5910, 5918>>, <<5943, 5951>>,
       <<5972, 5983>>, <<5997, 5997>>, <<6001, 6001>>, <<6004, 6015>>,
       <<6110, 6111>>, <<6122, 6127>>, <<6138, 6143>>, <<6158, 6158>>,
       <<6170, 6175>>, <<6265, 6271>>, <<6315, 6319>>, <<6390, 6399>>,
       <<6431, 6431>>, <<6444, 6447>>, <<6460, 6463>>, <<6465, 6467>>,
       <<6510, 6511>>, <<6517, 6527>>, <<6572, 6575>>, <<6602, 6607>>,
       <<6619, 6621>>, <<6684, 6685>>, <<6751, 6751>>, <<6781, 6782>>,
       <<6794, 6799>>, <<6810, 6815>>, <<6830, 6831>>, <<6863, 6911>>,
       <<6989, 6991>>, <<7039, 7039>>, <<7156, 7163>>, <<7224, 7226>>,
       <<7242, 7244>>, <<7305, 7311>>, <<7355, 7356>>, <<7368, 7375>>,
       <<7419, 7423>>, <<7958, 7959>>, <<7966, 7967>>, <<8006, 8007>>,
       <<8014, 8015>>, <<8024, 8024>>, <<8026, 8026>>, <<8028, 8028>>,
       <<8030, 8030>>, <<8062, 8063>>, <<8117, 8117>>, <<8133, 8133>>,
       <<8148, 8149>>, <<8156, 8156>>, <<8176, 8177>>, <<8181, 8181>>,
       <<8191, 8207>>, <<8232, 8239>>, <<8287, 8303>>, <<8306, 8307>>,
       <<8335, 8335>>, <<8349, 8351>>, <<8385, 8399>>, <<8433, 8447>>,
       <<8588, 8591>>, <<9255, 9279>>, <<9291, 9311>>, <<11124, 11125>>,
       <<11158, 11158>>, <<11508, 11512>>, <<11558, 11558>>,
       <<11560, 11564>>, <<11566, 11567>>, <<11624, 11630>>,
       <<11633, 11646>>, <<11671, 11679>>, <<11687, 11687>>,
       <<11695, 11695>>, <<11703, 11703>>, <<11711, 11711>>,
       <<11719, 11719>>, <<11727, 11727>>, <<11735, 11735>>,
       <<11743, 11743>>, <<11870, 11903>>, <<11930, 11930>>,
       <<12020, 12031>>, <<12246, 12271>>, <<12284, 12288>>,
       <<12352, 12352>>, <<12439, 12440>>, <<12544, 12548>>,
       <<12592, 12592>>, <<12687, 12687>>, <<12772, 12783>>,
       <<12831, 12831>>, <<42125, 42127>>, <<42183, 42191>>,
       <<42540, 42559>>, <<42744, 42751>>, <<42955, 42959>>,
       <<42962, 42962>>, <<42964, 42964>>, <<42970, 42993>>,
       <<43053, 43055>>, <<43066, 43071>>, <<43128, 43135>>,
       <<43206, 43213>>, <<43226, 43231>>, <<43348, 43358>>,
       <<43389, 43391>>, <<43470, 43470>>, <<43482, 43485>>,
       <<43519, 43519>>, <<43575, 43583>>, <<43598, 43599>>,
       <<43610, 43611>>, <<43715, 43738>>, <<43767, 43776>>,
       <<43783, 43784>>, <<43791, 43792>>, <<43799, 43807>>,
       <<43815, 43815>>, <<43823, 43823>>, <<43884, 43887>>,
       <<44014, 44015>>, <<44026, 44031>>, <<55204, 55215>>,
       <<55239, 55242>>, <<55292, 63743>>, <<64110, 64111>>,
       <<64218, 64255>>, <<64263, 64274>>, <<64280, 64284>>,
       <<64311, 64311>>, <<64317, 64317>>, <<64319, 64319>>,
       <<64322, 64322>>, <<64325, 64325>>, <<64451, 64466>>,
       <<64912, 64913>>, <<64968, 64974>>, <<64976, 65007>>,
       <<65050, 65055>>, <<65107, 65107>>, <<65127, 65127>>,
       <<65132, 65135>>, <<65141, 65141>>, <<65277, 65280>>,
       <<65471, 65473>>, <<65480, 65481>>, <<65488, 65489>>,
       <<65496, 65497>>, <<65501, 65503>>, <<65511, 65511>>,
       <<65519, 65531>>, <<65534, 65535>> >>

\* NotPrint32 holds the ranges of the code points from U+10000 on that are
\* none of these (Unicode 15.0).
NotPrint32 ==
    << <<65548, 65548>>, <<65575, 65575>>, <<65595, 65595>>,
       <<65598, 65598>>, <<65614, 65615>>, <<65630, 65663>>,
       <<65787, 65791>>, <<65795, 65798>>, <<65844, 65846>>,
       <<65935, 65935>>, <<65949, 65951>>, <<65953, 65999>>,
       <<66046, 66175>>, <<66205, 66207>>, <<66257, 66271>>,
       <<66300, 66303>>, <<66340, 66348>>, <<66379, 66383>>,
       <<66427, 66431>>, <<66462, 66462>>, <<66500, 66503>>,
       <<66518, 66559>>, <<66718, 66719>>, <<66730, 66735>>,
       <<66772, 66775>>, <<66812, 66815>>, <<66856, 66863>>,
       <<66916, 66926>>, <<66939, 66939>>, <<66955, 66955>>,
       <<66963, 66963>>, <<66966, 66966>>, <<66978, 66978>>,
       <<66994, 66994>>, <<67002, 67002>>, <<67005, 67071>>,
       <<67383, 67391>>, <<67414, 67423>>, <<67432, 67455>>,
       <<67462, 67462>>, <<67505, 67505>>, <<67515, 67583>>,
       <<67590, 67591>>, <<67593, 67593>>, <<67638, 67638>>,
       <<67641, 67643>>, <<67645, 67646>>, <<67670, 67670>>,
       <<67743, 67750>>, <<67760, 67807>>, <<67827, 67827>>,
       <<67830, 67834>>, <<67868, 67870>>, <<67898, 67902>>,
       <<67904, 67967>>, <<68024, 68027>>, <<68048, 68049>>,
       <<68100, 68100>>, <<68103, 68107>>, <<68116, 68116>>,
       <<68120, 68120>>, <<68150, 68151>>, <<68155, 68158>>,
       <<68169, 68175>>, <<68185, 68191>>, <<68256, 68287>>,
       <<68327, 68330>>, <<68343, 68351>>, <<68406, 68408>>,
       <<68438, 68439>>, <<68467, 68471>>, <<68498, 68504>>,
       <<68509, 68520>>, <<68528, 68607>>, <<68681, 68735>>,
       <<68787, 68799>>, <<68851, 68857>>, <<68904, 68911>>,
       <<68922, 69215>>, <<69247, 69247>>, <<69290, 69290>>,
       <<69294, 69295>>, <<69298, 69372>>, <<69416, 69423>>,
       <<69466, 69487>>, <<69514, 69551>>, <<69580, 69599>>,
       <<69623, 69631>>, <<69710, 69713>>, <<69750, 69758>>,
       <<69821, 69821>>, <<69827, 69839>>, <<69865, 69871>>,
       <<69882, 69887>>, <<69941, 69941>>, <<69960, 69967>>,
       <<70007, 70015>>, <<70112, 70112>>, <<70133, 70143>>,
       <<70162, 70162>>, <<70210, 70271>>, <<70279, 70279>>,
       <<70281, 70281>>, <<70286, 70286>>, <<70302, 70302>>,
       <<70314, 70319>>, <<70379, 70383>>, <<70394, 70399>>,
       <<70404, 70404>>, <<70413, 70414>>, <<70417, 70418>>,
       <<70441, 70441>>, <<70449, 70449>>, <<70452, 70452>>,
       <<70458, 70458>>, <<70469, 70470>>, <<70473, 70474>>,
       <<70478, 70479>>, <<70481, 70486>>, <<70488, 70492>>,
       <<70500, 70501>>, <<70509, 70511>>, <<70517, 70655>>,
       <<70748, 70748>>, <<70754, 70783>>, <<70856, 70863>>,
       <<70874, 71039>>, <<71094, 71095>>, <<71134, 71167>>,
       <<71237, 71247>>, <<71258, 71263>>, <<71277, 71295>>,
       <<71354, 71359>>, <<71370, 71423>>, <<71451, 71452>>,
       <<71468, 71471>>, <<71495, 71679>>, <<71740, 71839>>,
       <<71923, 71934>>, <<71943, 71944>>, <<71946, 71947>>,
       <<71956, 71956>>, <<71959, 71959>>, <<71990, 71990>>,
       <<71993, 71994>>, <<72007, 72015>>, <<72026, 72095>>,
       <<72104, 72105>>, <<72152, 72153>>, <<72165, 72191>>,
       <<72264, 72271>>, <<72355, 72367>>, <<72441, 72447>>,
       <<72458, 72703>>, <<72713, 72713>>, <<72759, 72759>>,
       <<72774, 72783>>, <<72813, 72815>>, <<72848, 72849>>,
       <<72872, 72872>>, <<72887, 72959>>, <<72967, 72967>>,
       <<72970, 72970>>, <<73015, 73017>>, <<73019, 73019>>,
       <<73022, 73022>>, <<73032, 73039>>, <<73050, 73055>>,
       <<73062, 73062>>, <<73065, 73065>>, <<73103, 73103>>,
       <<73106, 73106>>, <<73113, 73119>>, <<73130, 73439>>,
       <<73465, 73471>>, <<73489, 73489>>, <<73531, 73533>>,
       <<73562, 73647>>, <<73649, 73663>>, <<73714, 73726>>,
       <<74650, 74751>>, <<74863, 74863>>, <<74869, 74879>>,
       <<75076, 77711>>, <<77811, 77823>>, <<78895, 78911>>,
       <<78934, 82943>>, <<83527, 92159>>, <<92729, 92735>>,
       <<92767, 92767>>, <<92778, 92781>>, <<92863, 92863>>,
       <<92874, 92879>>, <<92910, 92911>>, <<92918, 92927>>,
       <<92998, 93007>>, <<93018, 93018>>, <<93026, 93026>>,
       <<93048, 93052>>, <<93072, 93759>>, <<93851, 93951>>,
       <<94027, 94030>>, <<94088, 94094>>, <<94112, 94175>>,
       <<94181, 94191>>, <<94194, 94207>>, <<100344, 100351>>,
       <<101590, 101631>>, <<101641, 110575>>, <<110580, 110580>>,
       <<110588, 110588>>, <<110591, 110591>>, <<110883, 110897>>,
       <<110899, 110927>>, <<110931, 110932>>, <<110934, 110947>>,
       <<110952, 110959>>, <<111356, 113663>>, <<113771, 113775>>,
       <<113789, 113791>>, <<113801, 113807>>, <<113818, 113819>>,
       <<113824, 118527>>, <<118574, 118575>>, <<118599, 118607>>,
       <<118724, 118783>>, <<119030, 119039>>, <<119079, 119080>>,
       <<119155, 119162>>, <<119275, 119295>>, <<119366, 119487>>,
       <<119508, 119519>>, <<119540, 119551>>, <<119639, 119647>>,
       <<119673, 119807>>, <<119893, 119893>>, <<119965, 119965>>,
       <<119968, 119969>>, <<119971, 119972>>, <<119975, 119976>>,
       <<119981, 119981>>, <<119994, 119994>>, <<119996, 119996>>,
       <<120004, 120004>>, <<120070, 120070>>, <<120075, 120076>>,
       <<120085, 120085>>, <<120093, 120093>>, <<120122, 120122>>,
       <<120127, 120127>>, <<120133, 120133>>, <<120135, 120137>>,
       <<120145, 120145>>, <<120486, 120487>>, <<120780, 120781>>,
       <<121484, 121498>>, <<121504, 121504>>, <<121520, 122623>>,
       <<122655, 122660>>, <<122667, 122879>>, <<122887, 122887>>,
       <<122905, 122906>>, <<122914, 122914>>, <<122917, 122917>>,
       <<122923, 122927>>, <<122990, 123022>>, <<123024, 123135>>,
       <<123181, 123183>>, <<123198, 123199>>, <<123210, 123213>>,
       <<123216, 123535>>, <<123567, 123583>>, <<123642, 123646>>,
       <<123648, 124111>>, <<124154, 124895>>, <<124903, 124903>>,
       <<124908, 124908>>, <<124911, 124911>>, <<124927, 124927>>,
       <<125125, 125126>>, <<125143, 125183>>, <<125260, 125263>>,
       <<125274, 125277>>, <<125280, 126064>>, <<126133, 126208>>,
       <<126270, 126463>>, <<126468, 126468>>, <<126496, 126496>>,
       <<126499, 126499>>, <<126501, 126502>>, <<126504, 126504>>,
       <<126515, 126515>>, <<126520, 126520>>, <<126522, 126522>>,
       <<126524, 126529>>, <<126531, 126534>>, <<126536, 126536>>,
       <<126538, 126538>>, <<126540, 126540>>, <<126544, 126544>>,
       <<126547, 126547>>, <<126549, 126550>>, <<126552, 126552>>,
       <<126554, 126554>>, <<126556, 126556>>, <<126558, 126558>>,
       <<126560, 126560>>, <<126563, 126563>>, <<126565, 126566>>,
       <<126571, 126571>>, <<126579, 126579>>, <<126584, 126584>>,
       <<126589, 126589>>, <<126591, 126591>>, <<126602, 126602>>,
       <<126620, 126624>>, <<126628, 126628>>, <<126634, 126634>>,
       <<126652, 126703>>, <<126706, 126975>>, <<127020, 127023>>,
       <<127124, 127135>>, <<127151, 127152>>, <<127168, 127168>>,
       <<127184, 127184>>, <<127222, 127231>>, <<127406, 127461>>,
       <<127491, 127503>>, <<127548, 127551>>, <<127561, 127567>>,
       <<127570, 127583>>, <<127590, 127743>>, <<128728, 128731>>,
       <<128749, 128751>>, <<128765, 128767>>, <<128887, 128890>>,
       <<128986, 128991>>, <<129004, 129007>>, <<129009, 129023>>,
       <<129036, 129039>>, <<129096, 129103>>, <<129114, 129119>>,
       <<129160, 129167>>, <<129198, 129199>>, <<129202, 129279>>,
       <<129620, 129631>>, <<129646, 129647>>, <<129661, 129663>>,
       <<129673, 129679>>, <<129726, 129726>>, <<129734, 129741>>,
       <<129756, 129759>>, <<129769, 129775>>, <<129785, 129791>>,
       <<129939, 129939>>, <<129995, 130031>>, <<130042, 131071>>,
       <<173792, 173823>>, <<177978, 177983>>, <<178206, 178207>>,
       <<183970, 183983>>, <<191457, 194559>>, <<195102, 196607>>,
       <<201547, 201551>>, <<205744, 917759>>, <<918000, 1114111>> >>

\* unicode.IsPrint
IsPrint(r) ==
    IF r < 127 THEN r >= 32
    ELSE IF r < 65536
    THEN \A k \in 1 .. Len(NotPrint16) : r < NotPrint16[k][1] \/ r > NotPrint16[k][2]
    ELSE \A k \in 1 .. Len(NotPrint32) : r < NotPrint32[k][1] \/ r > NotPrint32[k][2]

\* a code point begins at position j of s: j is not inside the two
\* characters of a code unit, nor at the second surrogate of a pair
RuneStart(s, j) ==
    /\ j = 1 \/ At(s, j - 1) # Shift
    /\ ~(/\ j > 1
         /\ UnitAt(s, j) \in 56320 .. 57343
         /\ UnitAt(s, j - LastUnitLen(SubSeq(s, 1, j - 1))) \in 55296 .. 56319)

\* strconv.Quote writes the code point at position j of s escaped: the
\* quote, the backslash and the code points that are not printable
QuoteEscaped(s, j) ==
    /\ RuneStart(s, j)
    /\ At(s, j) \in {"\"", "\\"} \/ ~IsPrint(RuneAt(s, j))

\* strconv.Quote: the escape of the code point r, whose text is c
QuoteEscape(c, r) ==
    CASE c = "\"" -> "\\\""
      [] c = "\\" -> "\\\\"
      [] c = CharOf[7] -> "\\a"
      [] c = CharOf[8] -> "\\b"
      [] c = "\f" -> "\\f"
      [] c = "\n" -> "\\n"
      [] c = "\r" -> "\\r"
      [] c = "\t" -> "\\t"
      [] c = CharOf[11] -> "\\v"
      [] OTHER ->
          IF r < 128 THEN "\\x" \o SubSeq(Hex4(r), 3, 4)
          ELSE IF r < 65536 THEN "\\u" \o Hex4(r)
          ELSE "\\U" \o Hex4(r \div 65536) \o Hex4(r % 65536)

\* strconv.Quote: the text between the quotes; the characters up to the next
\* one that is written escaped are taken as they are
RECURSIVE QuoteBody(_)
QuoteBody(s) ==
    LET special == { j \in 1 .. Len(s) : QuoteEscaped(s, j) }
    IN  IF special = {} THEN s
        ELSE LET j == MinOf(special)
             IN  SubSeq(s, 1, j - 1)
                     \o QuoteEscape(SubSeq(s, j, j + RuneLen(s, j) - 1), RuneAt(s, j))
                     \o QuoteBody(SubSeq(s, j + RuneLen(s, j), Len(s)))

\* strconv.Quote
Quote(s) ==
    "\"" \o QuoteBody(s) \o "\""

\* the JSON text the prompt asks the model for
ResponseText(command, safety) ==
    "{\"command\": \"" \o EscapeJSON(command) \o "\", \"safety\": \"" \o safety \o "\"}"

\* GenerateContent returned an error
ApiFailure ==
    [failed |-> TRUE, candidates |-> 0, content |-> FALSE, parts |-> 0, text |-> ""]

\* GenerateContent has not been called
NoApiResponse ==
    [failed |-> FALSE, candidates |-> 0, content |-> FALSE, parts |-> 0, text |-> ""]

\* a response of one candidate, with a content of one part
ApiText(text) ==
    [failed |-> FALSE, candidates |-> 1, content |-> TRUE, parts |-> 1, text |-> text]

\* the commands of the responses that are not as the prompt asks
OddCommands == { "ls -la", "rm -rf /", "foo", "" }

\* the safety values of the responses that are not as the prompt asks
OddSafeties == { "", "safe", "DANGEROUS", "SAFE " }

\* Texts that are not as the prompt asks, in three sets, by what the text
\* holds as it is written.  The first: a JSON object, alone or fenced or
\* within white space, whose last safety member (the key in any case, the
\* long s for an s, escapes in the key or in the value) is the string SAFE.
SafeTexts ==
    { Fence \o "json\n" \o ResponseText("ls -la", "SAFE") \o "\n" \o Fence,
      "{\"command\": \"ls -la\", \"safety\": \"SAFE\", \"explanation\": \"Lists files\"}",
      "{\"Command\": \"ls -la\", \"Safety\": \"SAFE\"}",
      "{\"safety\": \"SAFE\"}",
      "{\"command\": null, \"safety\": \"SAFE\"}",
      "{\"command\": \"ls -la\", \"safety\": \"SAFE\", \"confidence\": 0.9}",
      "{\"command\": \"ls \\u002dla\", \"safety\": \"SAFE\"}",
      "{\"command\": \"echo a\\nb\", \"safety\": \"SAFE\"}",
      CharOf[11] \o ResponseText("ls -la", "SAFE") \o CharOf[12] \o CharOf[11],
      "{\"command\": \"ls -la\", \"\\u017fafety\": \"SAFE\"}",
      "{\"command\": \"ls -la\", \"safety\": \"\\u0053AFE\"}",
      "{\"command\": \"ls -la\", \"safety\": \"ATTENTION\", \"safety\": \"SAFE\"}" }

\* The second: a JSON object whose last safety member is a string other than
\* SAFE or null, or that has no safety member; and the JSON value null.
OtherTexts ==
    { Fence \o "\n" \o ResponseText("rm -rf /", "ATTENTION") \o "\n" \o Fence,
      "{\"command\": \"ls -la\"}",
      "{\"command\": \"ls -la\", \"safety\": null}",
      "{\"safety\": \"ATTENTION\"}",
      "{}",
      "null",
      "{\"command\": \"ls -la\", \"tags\": [\"x\", -1e5], \"meta\": {\"n\": null}}",
      "{\"command\": \"ls -la\", \"safety\": \"SAFE\\n\"}",
      "{\"command\": \"ls -la\", \"safety\": \"\\u017fAFE\"}",
      "{\"command\": \"ls -la\", \"safety\": \"SAFE\", \"safety\": \"ATTENTION\"}" }

\* The third: a text that is not JSON, a JSON value that is no object and
\* not null, and an object whose command or safety member is neither a
\* string nor null.
BadTexts ==
    { "{\"command\": \"ls -la\", \"safety\": 1}",
      "{\"command\": 5, \"safety\": \"SAFE\"}",
      "{\"command\": \"ls -la\", \"safety\": [\"SAFE\"]}",
      "[]",
      "\"ls -la\"",
      "ls -la",
      "   ",
      "{\"command\": \"ls -la\", \"safety\": \"SAFE\"",
      "{\"command\": \"ls -la\", \"safety\": \"SAFE\", \"n\": 01}",
      "{\"command\": \"ls" \o CharOf[11] \o "-la\", \"safety\": \"SAFE\"}",
      "{\"command\": \"ls -la\", \"safety\": \"SAFE\"} x",
      "I cannot help with that." }

\* Texts with characters outside ASCII, in the text or in the command it
\* holds: white space of Unicode around the object, the long s in the key
\* and in the value, escapes of a dotless i and of a pair of surrogates.
\* The first two sets as above.
WideSafeTexts ==
    { UnitText(8232) \o ResponseText("ls -la", "SAFE") \o UnitText(12288),
      "{\"command\": \"ls -la\", \"" \o UnitText(383) \o "afety\": \"SAFE\"}",
      "{\"command\": \"x\\u0131sudo ls\", \"safety\": \"SAFE\"}",
      "{\"command\": \"echo \\ud83d\\ude00\", \"safety\": \"SAFE\"}",
      "{\"command\": \"caf" \o UnitText(233) \o "\", \"safety\": \"SAFE\"}" }

WideOtherTexts ==
    { "{\"command\": \"ls -la\", \"safety\": \"" \o UnitText(383) \o "AFE\"}",
      "{\"command\": \"ls -la\", \"safety\": \"SAFE" \o UnitText(8232) \o "\"}",
      UnitText(160) \o ResponseText("rm -rf /", "ATTENTION") \o UnitText(133) }

\* texts that are not as the prompt asks; the texts of a run are in ASCII
OddTexts ==
    { ResponseText(c, s) : c \in OddCommands, s \in OddSafeties }
    \cup SafeTexts \cup OtherTexts \cup BadTexts

\* what GenerateContent returns
ApiResponses ==
    { ApiFailure,
      NoApiResponse,
      [ApiText("") EXCEPT !.parts = 0],
      [ApiText("") EXCEPT !.content = FALSE, !.parts = 0],
      [ApiText("") EXCEPT !.candidates = 2, !.content = FALSE, !.parts = 0],
      ApiText(""),
      [ApiText(ResponseText("ls -la", "SAFE")) EXCEPT !.parts = 2],
      [ApiText(ResponseText("rm -rf /", "ATTENTION")) EXCEPT !.candidates = 2],
      [ApiText("I cannot help with that.") EXCEPT !.candidates = 2, !.parts = 2],
      [ApiText("") EXCEPT !.candidates = 2, !.parts = 0] }
    \cup { ApiText(t) : t \in OddTexts }
    \cup { ApiText(ResponseText(c, s)) : c \in Commands, s \in {"SAFE", "ATTENTION"} }

\* the lines a text printed with a newline after it makes on the output
RECURSIVE Lines(_)
Lines(text) ==
    LET breaks == { j \in 1 .. Len(text) : At(text, j) = "\n" }
    IN  IF breaks = {} THEN << text >>
        ELSE << SubSeq(text, 1, MinOf(breaks) - 1) >>
                 \o Lines(SubSeq(text, MinOf(breaks) + 1, Len(text)))

\* parseGenerateResponse, for i, candidate := range resp.Candidates: the
\* lines of the first n candidates, each with the line of each of its parts
\* (for j, part := range candidate.Content.Parts)
RECURSIVE StructureLines(_, _)
StructureLines(resp, n) ==
    IF n = 0 THEN << >>
    ELSE StructureLines(resp, n - 1)
         \o << "DEBUG: Candidate " \o ToString(n - 1) \o ":",
               "DEBUG:   Number of parts: " \o ToString(resp.parts) >>
         \o [j \in 1 .. resp.parts |->
                "DEBUG:   Part " \o ToString(j - 1) \o " text: " \o Quote(resp.text)]

\* parseGenerateResponse: the lines it prints with the debug flag set (the
\* response holds resp.candidates candidates, each of resp.parts parts, each
\* of the text resp.text); on a nil Content the lines it prints before
\* len(candidate.Content.Parts) panics
ParseDebugLines(c, resp) ==
    IF ~c.Debug THEN << >>
    ELSE IF NilContent(resp)
    THEN << "DEBUG: === FULL API RESPONSE STRUCTURE ===",
            "DEBUG: Number of candidates: " \o ToString(resp.candidates),
            "DEBUG: Candidate 0:" >>
    ELSE << "DEBUG: === FULL API RESPONSE STRUCTURE ===",
            "DEBUG: Number of candidates: " \o ToString(resp.candidates) >>
         \o StructureLines(resp, resp.candidates)
         \o << "DEBUG: === END API RESPONSE STRUCTURE ===" >>
         \o (IF resp.candidates = 0 \/ resp.parts = 0 \/ resp.text = "" THEN << >>
             ELSE << "DEBUG: jsonText we're trying to parse:" >>
                  \o Lines(resp.text)
                  \o << "DEBUG: === END jsonText ===",
                        "DEBUG: cleanedJSON after removing markdown:" >>
                  \o Lines(CleanJSONResponse(resp.text))
                  \o << "DEBUG: === END cleanedJSON ===" >>)

(***************************************************************************)
(* package commands: configuration and the generate subcommand.            *)
(***************************************************************************)
\* config.Default
DefaultConfig ==
    [GeminiAPIKey |-> "", Debug |-> FALSE, MockResponse |-> "", MockExitCode |-> 0]

\* the configurations a run is started with (file, environment and flags)
Configs ==
    [GeminiAPIKey : {"", "test-api-key", "test\nkey"},
     Debug : BOOLEAN,
     MockResponse : {"", "ls -la", "rm -rf /"},
     MockExitCode : {0, 10, 1}]

\* the zero value of safety.Result (var safetyResult safety.Result)
ZeroResult == [Level |-> Safe, Reason |-> "", Layer |-> ""]

\* the zero value of the pair AnalyzeCommand returns, before any call
NoAnalysis == [called |-> FALSE, result |-> ZeroResult, err |-> Nil]

\* The mutant of Merge: the AI's assessment is taken whenever there is one
\* (the pattern result does not upgrade it).
MergeTrustsAI(result, aiSafetyLevel) ==
    IF aiSafetyLevel = Attention
    THEN [Level |-> Attention,
          Reason |-> "AI flagged as requiring attention",
          Layer |-> "ai-assessment"]
    ELSE [Level |-> Safe, Reason |-> result.Reason, Layer |-> result.Layer]

\* The mutant of Merge: the pattern result is final, the AI's assessment is
\* not looked at.
MergePatternOnly(result, aiSafetyLevel) == result

\* The mutant of Merge: the AI's assessment is looked at first.
MergeAIFirst(result, aiSafetyLevel) ==
    IF aiSafetyLevel = Attention
    THEN [Level |-> Attention,
          Reason |-> "AI flagged as requiring attention",
          Layer |-> "ai-assessment"]
    ELSE result

\* The mutant of Merge: the AI's Attention is recorded in the pattern result
\* (its reason and layer are kept).
MergeKeepsProvenance(result, aiSafetyLevel) ==
    IF result.Level = Attention
    THEN result
    ELSE IF aiSafetyLevel = Attention
    THEN [Level |-> Attention, Reason |-> result.Reason, Layer |-> result.Layer]
    ELSE result

\* generate: the upgrade-only merge of the pattern result and the AI's level
Merge(result, aiSafetyLevel) ==
    IF result.Level = Attention
    THEN result
    ELSE IF aiSafetyLevel = Attention
    THEN [Level |-> Attention,
          Reason |-> "AI flagged as requiring attention",
          Layer |-> "ai-assessment"]
    ELSE result

VARIABLES
    pc,            \* where the generate run is
    cfg,           \* appCtx.Config
    provider,      \* the AI client createAIClient made: "gemini", "mock", ""
    apiResponse,   \* what the Gemini API returned to GenerateContent
    response,      \* what GenerateCommand returned
    analysis,      \* what AnalyzeCommand returned (the pattern result)
    safetyResult,  \* generate's safetyResult
    stdout,        \* the lines written to standard output
    ret,           \* the error RunE returned
    analyzers,     \* test harness: the Analyzers constructed so far
    last,          \* test harness: the latest AnalyzeCommand call
    memo,          \* test harness: an earlier call, kept for comparison
    shared,        \* concurrent callers: the one Analyzer they share
    calls,         \* concurrent callers: the call each goroutine is in
    wrapper,       \* shell integration: the hermes function of the shell
    levelResults   \* level tests: what String and ExitCode returned, by level

runVars == << pc, cfg, provider, apiResponse, response, analysis, safetyResult,
             stdout, ret >>
callerVars == << shared, calls >>
analyzerVars == << analyzers, last, memo, shared, calls, levelResults >>
harnessVars == << analyzers, last, memo, shared, calls, wrapper, levelResults >>
vars == << pc, cfg, provider, apiResponse, response, analysis, safetyResult,
           stdout, ret,
           analyzers, last, memo, shared, calls, wrapper, levelResults >>

NoCall == [called |-> FALSE, analyzer |-> 0, ctx |-> "", command |-> "",
           result |-> ZeroResult, err |-> Nil]

\* a goroutine that is in no call
Idle == [pc |-> "idle", method |-> "", analyzer |-> 0, ctx |-> "",
         command |-> "", code |-> 0, result |-> ZeroResult, err |-> Nil]

\* the hermes function of the shell, called with the arguments args
WrapperStart(shell, args) ==
    [shell |-> shell, args |-> args, pc |-> "start",
     output |-> << >>, exit_code |-> 0,
     terminal |-> << >>, buffer |-> << >>, placed |-> FALSE, status |-> 0]

\* no shell function is running
NoWrapper == WrapperStart("", << >>)

\* the SafetyLevel values of the level tests: the two named levels and
\* values that name no level (SafetyLevel is an int)
LevelCases == { -1, 0, 1, 2, 10, 999, 2147483647 }

\* a level test that has not run
NotRun == [done |-> FALSE, string |-> "", code |-> 0]

HarnessInit ==
    /\ wrapper = NoWrapper
    /\ levelResults = [level \in LevelCases |-> NotRun]
    /\ analyzers = << >>
    /\ last = NoCall
    /\ memo = NoCall
    /\ shared = NewAnalyzer
    /\ calls = [g \in 1 .. MaxGoroutines |-> Idle]

RunInit(configs) ==
    /\ pc = "start"
    /\ cfg \in configs
    /\ provider = ""
    /\ apiResponse = NoApiResponse
    /\ response = NoResponse
    /\ analysis = NoAnalysis
    /\ safetyResult = ZeroResult
    /\ stdout = << >>
    /\ ret = Nil

Init == RunInit(Configs) /\ HarnessInit

(***************************************************************************)
(* The generate run.                                                       *)
(***************************************************************************)
\* createAIClient: the lines its debug statement prints (the last four
\* bytes of the key are printed as they are: a newline among them ends a
\* line)
ClientDebugLines(c) ==
    LET apiKey == IF c.MockResponse # "" THEN "mock-key" ELSE c.GeminiAPIKey
    IN  IF ~c.Debug THEN << >>
        ELSE IF apiKey = "mock-key" THEN << "DEBUG: Using mock AI client" >>
        ELSE IF ByteLen(apiKey) > 4
        THEN Lines("DEBUG: Using API key ending in ..." \o LastBytes(apiKey, 4))
        ELSE << "DEBUG: Using API key (too short to truncate)" >>

\* createAIClient: the message of the configuration error
KeyRequired ==
    "Gemini API key is required. Set it via (in priority order):\n"
        \o "  - CLI flag: --gemini-api-key\n"
        \o "  - Environment variable: GEMINI_API_KEY\n"
        \o "  - Config file: ~/.config/hermes/config.toml"

\* createAIClient fails: no API key and no mock response
CreateAIClientNoKey ==
    /\ pc = "start"
    /\ cfg.GeminiAPIKey = "" /\ cfg.MockResponse = ""
    /\ ret' = NewError(CodeConfig, KeyRequired)
    /\ pc' = "done"
    /\ UNCHANGED << cfg, apiResponse, provider, response, analysis, safetyResult, stdout >>
    /\ UNCHANGED harnessVars

\* createAIClient: the client is made
CreateAIClient ==
    /\ pc = "start"
    /\ ~(cfg.GeminiAPIKey = "" /\ cfg.MockResponse = "")
    /\ provider' = IF cfg.MockResponse # "" THEN "mock" ELSE "gemini"
    /\ stdout' = stdout \o ClientDebugLines(cfg)
    /\ pc' = "client"
    /\ UNCHANGED << cfg, apiResponse, response, analysis, safetyResult, ret >>
    /\ UNCHANGED harnessVars

\* createAIClient fails: ai.NewClient (genai.NewClient) returns an error
CreateAIClientFails ==
    /\ pc = "start"
    /\ ~(cfg.GeminiAPIKey = "" /\ cfg.MockResponse = "")
    /\ cfg.MockResponse = ""
    /\ stdout' = stdout \o ClientDebugLines(cfg)
    /\ ret' = NewError(CodeError, "Failed to create AI client: %v")
    /\ pc' = "done"
    /\ UNCHANGED << cfg, apiResponse, provider, response, analysis, safetyResult >>
    /\ UNCHANGED harnessVars

\* GeminiClient.GenerateCommand: the API answers and parseGenerateResponse
\* returns a command and the model's opinion
GeminiGenerates ==
    /\ pc = "client"
    /\ provider = "gemini"
    /\ \E resp \in ApiResponses :
          LET parsed == ParseGenerateResponse(resp)
          IN  /\ ~resp.failed
              /\ ~NilContent(resp)
              /\ parsed.err = ""
              /\ apiResponse' = resp
              /\ response' = parsed.response
              /\ stdout' = stdout \o ParseDebugLines(cfg, resp)
    /\ pc' = "generated"
    /\ UNCHANGED << cfg, provider, analysis, safetyResult, ret >>
    /\ UNCHANGED harnessVars

\* generate: the query, the arguments joined with spaces
Queries == { "list files", "delete everything" }

\* MockClient.GenerateCommand returns the static command of --mock-response
MockGenerates ==
    /\ pc = "client"
    /\ provider = "mock"
    /\ response' = [Command |-> cfg.MockResponse,
                    SafetyLevel |-> IF ContainsDangerousPatterns(cfg.MockResponse)
                                    THEN Attention ELSE Safe]
    /\ \E query \in Queries :
          stdout' = IF cfg.Debug
                    THEN stdout \o Lines("DEBUG: Mock AI generating command for: " \o query)
                    ELSE stdout
    /\ pc' = "generated"
    /\ UNCHANGED << cfg, apiResponse, provider, analysis, safetyResult, ret >>
    /\ UNCHANGED harnessVars

\* The mutant of GenerateFails: the error of GenerateCommand is dropped and
\* the run goes on with the zero response.
GenerateFailsGoesOn ==
    /\ pc = "client"
    /\ provider = "gemini"
    /\ \E resp \in ApiResponses :
          /\ resp.failed \/ ParseGenerateResponse(resp).err # ""
          /\ apiResponse' = resp
          /\ stdout' = IF resp.failed THEN stdout
                       ELSE stdout \o ParseDebugLines(cfg, resp)
    /\ pc' = "generated"
    /\ UNCHANGED << cfg, provider, response, analysis, safetyResult, ret >>
    /\ UNCHANGED harnessVars

\* GenerateCommand returns an error (the API call or the parsing failed)
GenerateFails ==
    /\ pc = "client"
    /\ provider = "gemini"
    /\ \E resp \in ApiResponses :
          /\ resp.failed \/ ParseGenerateResponse(resp).err # ""
          /\ apiResponse' = resp
          /\ stdout' = IF resp.failed THEN stdout
                       ELSE stdout \o ParseDebugLines(cfg, resp)
    /\ ret' = NewError(CodeError, "AI command generation failed: %v")
    /\ pc' = "done"
    /\ UNCHANGED << cfg, provider, response, analysis, safetyResult >>
    /\ UNCHANGED harnessVars

\* GenerateCommand does not return: parseGenerateResponse dereferences the
\* nil Content of the first candidate, and the process ends with the panic
\* of the Go runtime
GeneratePanics ==
    /\ pc = "client"
    /\ provider = "gemini"
    /\ \E resp \in ApiResponses :
          /\ ~resp.failed
          /\ NilContent(resp)
          /\ apiResponse' = resp
          /\ stdout' = stdout \o ParseDebugLines(cfg, resp)
    /\ pc' = "panicked"
    /\ UNCHANGED << cfg, provider, response, analysis, safetyResult, ret >>
    /\ UNCHANGED harnessVars

\* the forced exit code: MockAnalyzeCommand alone decides
AnalyzeMock ==
    /\ pc = "generated"
    /\ cfg.MockExitCode # 0
    /\ safetyResult' = MockAnalyzeCommand(NewAnalyzer, response.Command, cfg.MockExitCode)
    /\ pc' = "analyzed"
    /\ UNCHANGED << cfg, apiResponse, provider, response, analysis, stdout, ret >>
    /\ UNCHANGED harnessVars

\* the hybrid analysis: AnalyzeCommand, then the upgrade-only merge
AnalyzeHybrid ==
    /\ pc = "generated"
    /\ cfg.MockExitCode = 0
    /\ LET r == AnalyzeCommand(NewAnalyzer, response.Command)
       IN  /\ analysis' = [called |-> TRUE, result |-> r.result, err |-> r.err]
           /\ IF ~r.err.isNil
              THEN /\ ret' = NewError(CodeError, "Safety analysis failed: %v")
                   /\ pc' = "done"
                   /\ UNCHANGED safetyResult
              ELSE /\ safetyResult' = Merge(r.result, response.SafetyLevel)
                   /\ pc' = "analyzed"
                   /\ UNCHANGED ret
    /\ UNCHANGED << cfg, apiResponse, provider, response, stdout >>
    /\ UNCHANGED harnessVars

\* the lines generate prints with the debug flag set
OutputDebugLines(c, command, r) ==
    IF ~c.Debug THEN << >>
    ELSE Lines("DEBUG: Generated command: " \o command)
             \o << "DEBUG: Safety level: " \o LevelString(r.Level),
                   "DEBUG: Safety analysis: " \o LevelString(r.Level)
                       \o " (reason: " \o r.Reason \o ", layer: " \o r.Layer \o ")" >>

\* The mutant of ReturnFor: the exit code of the level is dropped.
ReturnForAlwaysNil(level) == Nil

\* what RunE returns for the final level: a clean exit.Error with the
\* level's exit code, nil for the success code
ReturnFor(level) ==
    IF ExitCode(level) # CodeSuccess
    THEN NewError(ExitCode(level), "")
    ELSE Nil

\* the command is printed and RunE returns the exit code
OutputAndReturn ==
    /\ pc = "analyzed"
    /\ stdout' = stdout \o Lines(response.Command)
                    \o OutputDebugLines(cfg, response.Command, safetyResult)
    /\ ret' = ReturnFor(safetyResult.Level)
    /\ pc' = "done"
    /\ UNCHANGED << cfg, apiResponse, provider, response, analysis, safetyResult >>
    /\ UNCHANGED harnessVars

(***************************************************************************)
(* The init subcommand.                                                    *)
(***************************************************************************)
\* the shell names `hermes init` is called with
InitShells == { "zsh", "bash", "fish", "powershell", "Zsh", "" }

\* the first line of the integration script of a shell (it stands for the
\* script, which is a constant text)
ScriptHead(shell) ==
    CASE shell = "zsh" -> "# Hermes zsh integration"
      [] shell = "bash" -> "# Hermes bash integration"
      [] shell = "fish" -> "function hermes"

\* The mutant of InitCommand: for a shell that is not supported nothing is
\* printed and nil is returned.
InitCommandIgnoresUnknown(shell) ==
    /\ pc = "start"
    /\ IF shell \in {"zsh", "bash", "fish"}
       THEN stdout' = Append(stdout, ScriptHead(shell))
       ELSE UNCHANGED stdout
    /\ ret' = Nil
    /\ pc' = "initialized"
    /\ UNCHANGED << cfg, apiResponse, provider, response, analysis, safetyResult >>
    /\ UNCHANGED harnessVars

\* initCmd.RunE: the script of the shell is printed; a shell other than
\* zsh, bash and fish is an error
InitCommand(shell) ==
    /\ pc = "start"
    /\ IF shell \in {"zsh", "bash", "fish"}
       THEN /\ stdout' = Append(stdout, ScriptHead(shell))
            /\ ret' = Nil
       ELSE /\ ret' = NewError(CodeError,
                         "unsupported shell: " \o shell
                             \o " (supported: zsh, bash, fish)")
            /\ UNCHANGED stdout
    /\ pc' = "initialized"
    /\ UNCHANGED << cfg, apiResponse, provider, response, analysis, safetyResult >>
    /\ UNCHANGED harnessVars

(***************************************************************************)
(* Before RunE.  cobra parses the flags, shows the help for --help, checks *)
(* the arguments with the Args of the subcommand and runs loadConfig, the  *)
(* PersistentPreRunE of the root command; an error of any of them is       *)
(* returned by Execute and RunE is not called.  The runs above start where *)
(* all of this has passed.                                                 *)
(***************************************************************************)
\* the subcommands of the runs
SubCommands == { "generate", "init" }

\* the numbers of arguments a subcommand is called with
ArgCounts == 0 .. 2

\* flags that neither the subcommands nor the root command define
UnknownFlags == { "--debug", "--mock-response" }

\* Args: cobra.MinimumNArgs(1) of generate, cobra.ExactArgs(1) of init
ValidateArgs(cmd, n) ==
    IF cmd = "generate"
    THEN IF n < 1
         THEN Errorf("requires at least 1 arg(s), only received " \o ToString(n))
         ELSE Nil
    ELSE IF n # 1
         THEN Errorf("accepts 1 arg(s), received " \o ToString(n))
         ELSE Nil

\* the number of arguments is not one the subcommand accepts
ArgsRejected(cmd, n) ==
    /\ pc = "start"
    /\ ~ValidateArgs(cmd, n).isNil
    /\ ret' = ValidateArgs(cmd, n)
    /\ pc' = "rejected"
    /\ UNCHANGED << cfg, apiResponse, provider, response, analysis, safetyResult, stdout >>
    /\ UNCHANGED harnessVars

\* a flag that is not defined: ParseFlags returns an error
FlagRejected(flag) ==
    /\ pc = "start"
    /\ ret' = Errorf("unknown flag: " \o flag)
    /\ pc' = "rejected"
    /\ UNCHANGED << cfg, apiResponse, provider, response, analysis, safetyResult, stdout >>
    /\ UNCHANGED harnessVars

\* loadConfig: the formats of its errors
LoadConfigErrors ==
    { "failed to load environment variables: %w",
      "failed to load flags: %w",
      "failed to unmarshal config: %w" }

\* loadConfig returns an error
LoadConfigFails(format) ==
    /\ pc = "start"
    /\ ret' = Errorf(format)
    /\ pc' = "unconfigured"
    /\ UNCHANGED << cfg, apiResponse, provider, response, analysis, safetyResult, stdout >>
    /\ UNCHANGED harnessVars

\* the first line of the help of a subcommand, its Long text (it stands for
\* the help, which is a constant text)
HelpHead(cmd) ==
    CASE cmd = "generate" -> "Generate shell commands from natural language descriptions."
      [] cmd = "init" -> "Generate shell integration script for the specified shell."

\* --help: the help is printed and Execute returns nil
ShowHelp(cmd) ==
    /\ pc = "start"
    /\ stdout' = Append(stdout, HelpHead(cmd))
    /\ ret' = Nil
    /\ pc' = "helped"
    /\ UNCHANGED << cfg, apiResponse, provider, response, analysis, safetyResult >>
    /\ UNCHANGED harnessVars

Next ==
    \/ \E cmd \in SubCommands, n \in ArgCounts : ArgsRejected(cmd, n)
    \/ \E flag \in UnknownFlags : FlagRejected(flag)
    \/ \E format \in LoadConfigErrors : LoadConfigFails(format)
    \/ \E cmd \in SubCommands : ShowHelp(cmd)
    \/ \E shell \in InitShells : InitCommand(shell)
    \/ CreateAIClientNoKey
    \/ CreateAIClient
    \/ CreateAIClientFails
    \/ GeminiGenerates
    \/ MockGenerates
    \/ GenerateFails
    \/ GeneratePanics
    \/ AnalyzeMock
    \/ AnalyzeHybrid
    \/ OutputAndReturn

Spec == Init /\ [][Next]_vars


(***************************************************************************)
(* The Analyzer's test harness: Analyzers are constructed and              *)
(* AnalyzeCommand is called on them, in any order; one earlier call is     *)
(* kept to compare later calls with.                                       *)
(***************************************************************************)
AnalyzerInit == RunInit({DefaultConfig}) /\ HarnessInit

\* the commands the repeated and the concurrent calls are made with
CallerCommands == { "sudo ls", "ls", "unknowncmd --flag" }

\* analyzer := NewAnalyzer()
ConstructAnalyzer ==
    /\ Len(analyzers) < MaxAnalyzers
    /\ analyzers' = Append(analyzers, NewAnalyzer)
    /\ UNCHANGED << last, memo >>
    /\ UNCHANGED callerVars
    /\ UNCHANGED << runVars, wrapper, levelResults >>

\* analyzers[i].AnalyzeCommand(ctx, command)
CallAnalyzeCommand(i, command) ==
    /\ i \in DOMAIN analyzers
    /\ LET r == AnalyzeCommand(analyzers[i], command)
       IN  last' = [called |-> TRUE, analyzer |-> i, ctx |-> "Background",
                    command |-> command, result |-> r.result, err |-> r.err]
    /\ analyzers' = [analyzers EXCEPT ![i] = AnalyzerAfterAnalyze(@, command)]
    /\ UNCHANGED memo
    /\ UNCHANGED callerVars
    /\ UNCHANGED << runVars, wrapper, levelResults >>

\* the harness keeps the latest call for a later comparison
Remember ==
    /\ last.called
    /\ memo' = last
    /\ UNCHANGED << analyzers, last >>
    /\ UNCHANGED callerVars
    /\ UNCHANGED << runVars, wrapper, levelResults >>

AnalyzerNext ==
    \/ ConstructAnalyzer
    \/ \E i \in 1 .. MaxAnalyzers, command \in ProbeCommands :
          CallAnalyzeCommand(i, command)
    \/ Remember

AnalyzerSpec == AnalyzerInit /\ [][AnalyzerNext]_vars


(***************************************************************************)
(* Repeated calls: a test constructs Analyzers and calls AnalyzeCommand on *)
(* them, one call after the other, each with any command and any context   *)
(* and on any of the Analyzers.  A call runs as the code does: it reads    *)
(* the attention table of the Analyzer it was called on, then its safe     *)
(* table, and returns.  The result of a call is kept (last), and one       *)
(* earlier result is kept to compare later ones with (memo).               *)
(***************************************************************************)
\* the goroutine of the test
TestGoroutine == 1

\* the contexts of the calls: context.Background(), and a context that was
\* cancelled before the call
Contexts == { "Background", "Canceled" }

RepeatInit == RunInit({DefaultConfig}) /\ HarnessInit

\* analyzers[i].AnalyzeCommand(ctx, command): the call is entered
EnterAnalyzeCommand(i, ctx, command) ==
    /\ i \in DOMAIN analyzers
    /\ calls[TestGoroutine].pc = "idle"
    /\ calls' = [calls EXCEPT ![TestGoroutine] =
                     [Idle EXCEPT !.pc = "attention",
                                  !.method = "AnalyzeCommand",
                                  !.analyzer = i,
                                  !.ctx = ctx,
                                  !.command = command]]
    /\ UNCHANGED << analyzers, last, memo, shared >>
    /\ UNCHANGED << runVars, wrapper, levelResults >>

\* Layer 1: for _, pattern := range a.attentionPatterns
RangeAttentionPatterns ==
    /\ calls[TestGoroutine].pc = "attention"
    /\ calls' = [calls EXCEPT ![TestGoroutine] =
          IF AnyMatch(analyzers[@.analyzer].attentionPatterns, @.command)
          THEN [@ EXCEPT !.pc = "returned",
                         !.result = [Level |-> Attention,
                                     Reason |-> "Command requires user attention",
                                     Layer |-> "attention-patterns"]]
          ELSE [@ EXCEPT !.pc = "safe"]]
    /\ analyzers' = [analyzers EXCEPT ![calls[TestGoroutine].analyzer] =
                         AnalyzerAfterAnalyze(@, calls[TestGoroutine].command)]
    /\ UNCHANGED << last, memo, shared >>
    /\ UNCHANGED << runVars, wrapper, levelResults >>

\* Layer 2: for _, pattern := range a.safePatterns, and the default of
\* Layer 3
RangeSafePatterns ==
    /\ calls[TestGoroutine].pc = "safe"
    /\ calls' = [calls EXCEPT ![TestGoroutine] =
          IF AnyMatch(analyzers[@.analyzer].safePatterns, @.command)
          THEN [@ EXCEPT !.pc = "returned",
                         !.result = [Level |-> Safe,
                                     Reason |-> "Command is known to be safe",
                                     Layer |-> "safe-patterns"]]
          ELSE [@ EXCEPT !.pc = "returned",
                         !.result = [Level |-> Safe,
                                     Reason |-> "Command passed basic safety checks (AI analysis not yet implemented)",
                                     Layer |-> "default-safe"]]]
    /\ analyzers' = [analyzers EXCEPT ![calls[TestGoroutine].analyzer] =
                         AnalyzerAfterAnalyze(@, calls[TestGoroutine].command)]
    /\ UNCHANGED << last, memo, shared >>
    /\ UNCHANGED << runVars, wrapper, levelResults >>

\* result, err := ...: the test takes what the call returned
TakeResult ==
    /\ calls[TestGoroutine].pc = "returned"
    /\ last' = [called |-> TRUE,
                analyzer |-> calls[TestGoroutine].analyzer,
                ctx |-> calls[TestGoroutine].ctx,
                command |-> calls[TestGoroutine].command,
                result |-> calls[TestGoroutine].result,
                err |-> calls[TestGoroutine].err]
    /\ calls' = [calls EXCEPT ![TestGoroutine] = Idle]
    /\ UNCHANGED << analyzers, memo, shared >>
    /\ UNCHANGED << runVars, wrapper, levelResults >>

RepeatNext ==
    \/ ConstructAnalyzer
    \/ \E i \in 1 .. MaxAnalyzers, ctx \in Contexts, command \in CallerCommands :
          EnterAnalyzeCommand(i, ctx, command)
    \/ RangeAttentionPatterns
    \/ RangeSafePatterns
    \/ TakeResult
    \/ Remember

RepeatSpec == RepeatInit /\ [][RepeatNext]_vars


(***************************************************************************)
(* The level tests: the cases of the test tables of SafetyLevel.String and *)
(* SafetyLevel.ExitCode run as subtests, in any order, each once.          *)
(***************************************************************************)
LevelInit == RunInit({DefaultConfig}) /\ HarnessInit

\* t.Run of one case: level.String() and level.ExitCode()
TestLevel(level) ==
    /\ ~levelResults[level].done
    /\ levelResults' = [levelResults EXCEPT ![level] =
                            [done |-> TRUE, string |-> LevelString(level),
                             code |-> ExitCode(level)]]
    /\ UNCHANGED << analyzers, last, memo, shared, calls, wrapper >>
    /\ UNCHANGED runVars

LevelNext == \E level \in LevelCases : TestLevel(level)

LevelSpec == LevelInit /\ [][LevelNext]_vars


(***************************************************************************)
(* Concurrent callers: goroutines call AnalyzeCommand and                  *)
(* MockAnalyzeCommand on one shared Analyzer without coordination.  A call *)
(* of AnalyzeCommand is two loops, each reading one table of the shared    *)
(* Analyzer; the steps of the goroutines interleave in any order.          *)
(***************************************************************************)
\* the forced codes the goroutines call with
MockCodes == { CodeSuccess, CodeDangerous, CodeError, 999 }

CallerInit == RunInit({DefaultConfig}) /\ HarnessInit

\* go shared.AnalyzeCommand(ctx, command): the call is entered
BeginAnalyzeCommand(g, command) ==
    /\ calls[g].pc = "idle"
    /\ calls' = [calls EXCEPT ![g] = [Idle EXCEPT !.pc = "attention",
                                                  !.method = "AnalyzeCommand",
                                                  !.command = command]]
    /\ UNCHANGED << analyzers, last, memo, shared >>
    /\ UNCHANGED << runVars, wrapper, levelResults >>

\* Layer 1: the loop over a.attentionPatterns
ScanAttentionPatterns(g) ==
    /\ calls[g].pc = "attention"
    /\ calls' = [calls EXCEPT ![g] =
          IF AnyMatch(shared.attentionPatterns, calls[g].command)
          THEN [@ EXCEPT !.pc = "returned",
                         !.result = [Level |-> Attention,
                                     Reason |-> "Command requires user attention",
                                     Layer |-> "attention-patterns"]]
          ELSE [@ EXCEPT !.pc = "safe"]]
    /\ shared' = AnalyzerAfterAnalyze(shared, calls[g].command)
    /\ UNCHANGED << analyzers, last, memo >>
    /\ UNCHANGED << runVars, wrapper, levelResults >>

\* Layer 2: the loop over a.safePatterns, and the default of Layer 3
ScanSafePatterns(g) ==
    /\ calls[g].pc = "safe"
    /\ calls' = [calls EXCEPT ![g] =
          IF AnyMatch(shared.safePatterns, calls[g].command)
          THEN [@ EXCEPT !.pc = "returned",
                         !.result = [Level |-> Safe,
                                     Reason |-> "Command is known to be safe",
                                     Layer |-> "safe-patterns"]]
          ELSE [@ EXCEPT !.pc = "returned",
                         !.result = [Level |-> Safe,
                                     Reason |-> "Command passed basic safety checks (AI analysis not yet implemented)",
                                     Layer |-> "default-safe"]]]
    /\ shared' = AnalyzerAfterAnalyze(shared, calls[g].command)
    /\ UNCHANGED << analyzers, last, memo >>
    /\ UNCHANGED << runVars, wrapper, levelResults >>

\* go shared.MockAnalyzeCommand(command, code): the switch on the code
CallMockAnalyzeCommand(g, command, code) ==
    /\ calls[g].pc = "idle"
    /\ calls' = [calls EXCEPT ![g] = [Idle EXCEPT
                      !.pc = "returned",
                      !.method = "MockAnalyzeCommand",
                      !.command = command,
                      !.code = code,
                      !.result = MockAnalyzeCommand(shared, command, code)]]
    /\ shared' = AnalyzerAfterMock(shared, command, code)
    /\ UNCHANGED << analyzers, last, memo >>
    /\ UNCHANGED << runVars, wrapper, levelResults >>

\* the caller takes the result; the goroutine is free for another call
Join(g) ==
    /\ calls[g].pc = "returned"
    /\ calls' = [calls EXCEPT ![g] = Idle]
    /\ UNCHANGED << analyzers, last, memo, shared >>
    /\ UNCHANGED << runVars, wrapper, levelResults >>

CallerNext ==
    \E g \in 1 .. MaxGoroutines :
        \/ \E command \in CallerCommands : BeginAnalyzeCommand(g, command)
        \/ ScanAttentionPatterns(g)
        \/ ScanSafePatterns(g)
        \/ \E command \in CallerCommands, code \in MockCodes :
               CallMockAnalyzeCommand(g, command, code)
        \/ Join(g)

CallerSpec == CallerInit /\ [][CallerNext]_vars


(***************************************************************************)
(* Shell integration: the hermes function that `hermes init zsh|bash|fish` *)
(* prints.  The function runs the hermes binary, captures its standard     *)
(* output and its exit code, and acts on the exit code.  The standard      *)
(* error of the binary goes to the terminal.                               *)
(***************************************************************************)
Shells == { "zsh", "bash", "fish" }

\* the arguments the function is called with
WrapperArgs ==
    { << >>,
      << "explain", "ls -la" >>,
      << "gen", "list files" >>,
      << "generate", "delete everything" >>,
      << "--gemini-api-key", "test-api-key", "gen", "list files" >> }

\* The text on standard error for the error Execute returned: cobra prints
\* the error after its prefix.
ErrorLine(msg) == "Error: " \o msg

\* cobra's usage of the generate subcommand, by lines
GenerateUsage ==
    << "Usage:",
       "  hermes generate [natural language query] [flags]",
       "",
       "Aliases:",
       "  generate, gen",
       "",
       "Flags:",
       "  -h, --help   help for generate",
       "",
       "Global Flags:",
       "      --gemini-api-key string   Gemini API key for AI command generation and explanation" >>

\* cobra's usage of the explain subcommand, by lines
ExplainUsage ==
    << "Usage:",
       "  hermes explain [command] [flags]",
       "",
       "Aliases:",
       "  explain, exp",
       "",
       "Flags:",
       "  -h, --help   help for explain",
       "",
       "Global Flags:",
       "      --gemini-api-key string   Gemini API key for AI command generation and explanation" >>

\* what cobra writes to standard error for an error RunE returned (neither
\* SilenceErrors nor SilenceUsage is set): the error, the usage of the
\* subcommand and an empty line
CobraErrorLines(msg, usage) == Lines(ErrorLine(msg)) \o usage \o << "" >>

\* generate: the progress line on standard error
ProgressLine(query) ==
    UnitText(9492) \o UnitText(9472) \o " Generating command for: '" \o query \o "'"

\* the safety result of a run for the command and the model's opinion: that
\* of MockAnalyzeCommand with a forced exit code, else the merge
SafetyResultOf(c, command, aiSafetyLevel) ==
    IF c.MockExitCode # 0
    THEN MockAnalyzeCommand(NewAnalyzer, command, c.MockExitCode)
    ELSE Merge(AnalyzeCommand(NewAnalyzer, command).result, aiSafetyLevel)

\* the standard output of a successful run with the debug flag: the lines
\* of createAIClient, those of GenerateCommand, the command, the lines of
\* generate
DebugStdout(c, generateLines, command, aiSafetyLevel) ==
    ClientDebugLines(c) \o generateLines \o Lines(command)
        \o OutputDebugLines(c, command, SafetyResultOf(c, command, aiSafetyLevel))

\* the first line the Go runtime writes to standard error for the panic of
\* a nil pointer; the signal line and the stacks of the goroutines follow
\* it, and vary with the build
PanicLines ==
    << "panic: runtime error: invalid memory address or nil pointer dereference" >>

\* what a run of `hermes generate` hands to the shell: its exit code, its
\* standard output, and its standard error, in the lines written before the
\* standard output (the progress line, the first statement of RunE) and
\* those written after it (the error and the usage, written by cobra once
\* RunE has returned; the panic)
GenerateOutcomes ==
    { [code |-> CodeSuccess, stdout |-> << "ls -la" >>,
       progress |-> << ProgressLine("list files") >>, errors |-> << >>],
      [code |-> CodeSuccess,
       stdout |-> DebugStdout([DefaultConfig EXCEPT !.GeminiAPIKey = "test-api-key",
                                                    !.Debug = TRUE],
                              ParseDebugLines([Debug |-> TRUE],
                                              ApiText(ResponseText("ls -la", "SAFE"))),
                              "ls -la", Safe),
       progress |-> << ProgressLine("list files") >>, errors |-> << >>],
      [code |-> CodeSuccess,
       stdout |-> DebugStdout([DefaultConfig EXCEPT !.MockResponse = "ls -la",
                                                    !.Debug = TRUE],
                              Lines("DEBUG: Mock AI generating command for: list files"),
                              "ls -la", Safe),
       progress |-> << ProgressLine("list files") >>, errors |-> << >>],
      [code |-> CodeDangerous, stdout |-> << "rm -rf /" >>,
       progress |-> << ProgressLine("delete everything") >>,
       errors |-> CobraErrorLines("", GenerateUsage)],
      [code |-> CodeDangerous,
       stdout |-> DebugStdout([DefaultConfig EXCEPT !.MockResponse = "ls -la",
                                                    !.MockExitCode = CodeDangerous,
                                                    !.Debug = TRUE],
                              Lines("DEBUG: Mock AI generating command for: list files"),
                              "ls -la", Safe),
       progress |-> << ProgressLine("list files") >>,
       errors |-> CobraErrorLines("", GenerateUsage)],
      [code |-> CodeError, stdout |-> << >>,
       progress |-> << ProgressLine("list files") >>,
       errors |-> CobraErrorLines("AI command generation failed: no content returned from API",
                                        GenerateUsage)],
      [code |-> CodeError,
       stdout |-> ClientDebugLines([DefaultConfig EXCEPT !.GeminiAPIKey = "test\nkey",
                                                         !.Debug = TRUE])
                     \o ParseDebugLines([Debug |-> TRUE], ApiText("ls -la")),
       progress |-> << ProgressLine("list files") >>,
       errors |-> CobraErrorLines("AI command generation failed: failed to parse JSON response: invalid character 'l' looking for beginning of value",
                                        GenerateUsage)],
      [code |-> CodeConfig, stdout |-> << >>,
       progress |-> << ProgressLine("list files") >>,
       errors |-> CobraErrorLines(KeyRequired, GenerateUsage)],
      [code |-> 2,
       stdout |-> ClientDebugLines([DefaultConfig EXCEPT !.GeminiAPIKey = "test-api-key",
                                                         !.Debug = TRUE])
                     \o ParseDebugLines([Debug |-> TRUE],
                                        [ApiText("") EXCEPT !.content = FALSE, !.parts = 0]),
       progress |-> << ProgressLine("list files") >>,
       errors |-> PanicLines] }

\* explainCmd.RunE: the message of its error for a missing API key (a
\* plain error)
ExplainKeyRequired ==
    "Gemini API key is required. Set it via:\n"
        \o "  - Environment variable: GEMINI_API_KEY\n"
        \o "  - CLI flag: --gemini-api-key\n"
        \o "  - Config file: ~/.config/hermes/config.toml"

\* what a run of another subcommand hands to the shell, in the same fields
OtherOutcomes ==
    { [code |-> CodeSuccess, stdout |-> << "Explaining command: 'ls -la'" >>,
       progress |-> << >>, errors |-> << >>],
      [code |-> ProcessExitCode(Errorf(ExplainKeyRequired)), stdout |-> << >>,
       progress |-> << >>,
       errors |-> CobraErrorLines(ExplainKeyRequired, ExplainUsage)] }

\* the lines of the review warning
WarningLines ==
    << "",
       "REQUIRES ATTENTION - Potentially destructive action ahead, review before execution",
       "" >>

\* for arg in "$@": gen|generate
IsGeneration(args) == \E i \in DOMAIN args : args[i] \in {"gen", "generate"}

\* The mutant of CaseBranch: the attention code is handled as the success
\* code is.
CaseBranchNoWarning(exit_code) ==
    IF exit_code \in {0, 10} THEN "place" ELSE "rerun"

\* case $exit_code in 0) ... 10) ... *) ...
CaseBranch(exit_code) ==
    CASE exit_code = 0 -> "place"
      [] exit_code = 10 -> "warn"
      [] OTHER -> "rerun"

WrapperInit ==
    /\ RunInit({DefaultConfig})
    /\ analyzers = << >> /\ last = NoCall /\ memo = NoCall
    /\ shared = NewAnalyzer
    /\ calls = [g \in 1 .. MaxGoroutines |-> Idle]
    /\ levelResults = [level \in LevelCases |-> NotRun]
    /\ wrapper \in { WrapperStart(shell, args) : shell \in Shells, args \in WrapperArgs }

\* no arguments: command hermes --help; return
WrapperShowsHelp ==
    /\ wrapper.pc = "start"
    /\ wrapper.args = << >>
    /\ wrapper' = [wrapper EXCEPT !.terminal = Append(@, "Usage: hermes [command]"),
                                  !.status = 0,
                                  !.pc = "done"]
    /\ UNCHANGED << runVars, analyzerVars >>

\* not a generation request: the binary runs on the terminal, which is both
\* its standard output and its standard error, and its exit code is returned
WrapperPassesThrough(o) ==
    /\ wrapper.pc = "start"
    /\ wrapper.args # << >>
    /\ ~IsGeneration(wrapper.args)
    /\ wrapper' = [wrapper EXCEPT !.terminal = @ \o o.progress \o o.stdout \o o.errors,
                                  !.status = o.code,
                                  !.pc = "done"]
    /\ UNCHANGED << runVars, analyzerVars >>

\* output=$(... command hermes "$@"); exit_code=$?; case $exit_code in (the
\* standard output is captured, the standard error is on the terminal)
WrapperCaptures(o) ==
    /\ wrapper.pc = "start"
    /\ IsGeneration(wrapper.args)
    /\ wrapper' = [wrapper EXCEPT !.output = o.stdout,
                                  !.exit_code = o.code,
                                  !.terminal = @ \o o.progress \o o.errors,
                                  !.pc = CaseBranch(o.code)]
    /\ UNCHANGED << runVars, analyzerVars >>

\* 10) the three echo lines
WrapperShowsWarning ==
    /\ wrapper.pc = "warn"
    /\ wrapper' = [wrapper EXCEPT !.terminal = @ \o WarningLines,
                                  !.pc = "place"]
    /\ UNCHANGED << runVars, analyzerVars >>

\* print -z "$output" (zsh), read -e -i "$output" (bash), commandline
\* $output (fish); the function ends with the status of that command (read
\* returns 1 at the end of input)
WrapperPlacesCommand ==
    /\ wrapper.pc = "place"
    /\ \E st \in (IF wrapper.shell = "bash" THEN {0, 1} ELSE {0}) :
          wrapper' = [wrapper EXCEPT !.buffer = wrapper.output,
                                    !.placed = TRUE,
                                    !.status = st,
                                    !.pc = "done"]
    /\ UNCHANGED << runVars, analyzerVars >>

\* *) the binary runs again, on the terminal, which shows its standard
\* output and its standard error in the order they are written; return
\* $exit_code (zsh, bash), return 1 (fish)
WrapperShowsError(o) ==
    /\ wrapper.pc = "rerun"
    /\ wrapper' = [wrapper EXCEPT !.terminal = @ \o o.progress \o o.stdout \o o.errors,
                                  !.status = IF wrapper.shell = "fish"
                                             THEN 1 ELSE wrapper.exit_code,
                                  !.pc = "done"]
    /\ UNCHANGED << runVars, analyzerVars >>

WrapperNext ==
    \/ WrapperShowsHelp
    \/ \E o \in OtherOutcomes : WrapperPassesThrough(o)
    \/ \E o \in GenerateOutcomes : WrapperCaptures(o)
    \/ WrapperShowsWarning
    \/ WrapperPlacesCommand
    \/ \E o \in GenerateOutcomes : WrapperShowsError(o)

\* the shell runs the function to its end
WrapperSpec == WrapperInit /\ [][WrapperNext]_vars /\ WF_vars(WrapperNext)


(***************************************************************************)
(* Vocabulary of the properties.                                           *)
(***************************************************************************)
\* the command matches at least one attention rule / one safe rule
MatchesAttentionRule(command) ==
    \E i \in DOMAIN AttentionPatterns : MatchString(AttentionPatterns[i], command)

MatchesSafeRule(command) ==
    \E i \in DOMAIN SafePatterns : MatchString(SafePatterns[i], command)

\* the run classified the generated command with AnalyzeCommand
Classified == analysis.called

\* the run printed the command and returned the verdict's exit code
VerdictReturned == pc = "done" /\ (ret.isNil \/ ret.Msg = "")

\* the first token of the command, after any leading white space, is the
\* word w, ended by the end of the command, white space or a shell operator
TokenEnds(s, P) ==
    { p \in P : p = Len(s) \/ At(s, p + 1) \in SpaceChars \cup {"|", ";", "&"} }

FirstTokenStart(s) ==
    { p \in Spaces0(s, {0}) : p = Len(s) \/ At(s, p + 1) \notin SpaceChars }

\* the command name of the command is one of the safe-rule commands
HasSafeCommandName(s) ==
    \/ \E w \in { "ls", "cd", "pwd", "echo", "cat", "head", "tail", "grep", "find",
                  "ps", "which", "whereis", "man", "help" } :
          TokenEnds(s, Lit(s, FirstTokenStart(s), w)) # {}
    \/ TokenEnds(s, Alt(s, Spaces1(s, Lit(s, FirstTokenStart(s), "git")),
                        {"status", "log", "diff", "branch", "show"})) # {}
    \/ TokenEnds(s, Lit(s, Spaces1(s, Lit(s, FirstTokenStart(s), "systemctl")),
                        "status")) # {}

(***************************************************************************)
(* C1. Attention precedence: a command that matches at least one attention *)
(* rule and at least one safe rule is classified Attention by the          *)
(* attention-pattern layer (Layer "attention-patterns"): no safe match     *)
(* wins over an attention match.                                           *)
(***************************************************************************)
C1_AttentionPrecedence ==
    (Classified /\ MatchesSafeRule(response.Command)
                /\ MatchesAttentionRule(response.Command))
        => /\ analysis.result.Level = Attention
           /\ analysis.result.Layer = "attention-patterns"

\* a command with a safe match at its start and sudo later in it was classified
C1_Witness ==
    /\ Classified
    /\ MatchesAttentionRule(response.Command)
    /\ MatchesSafeRule(response.Command)
    /\ response.Command = "echo 'sudo ls' > script.sh"
    /\ analysis.result.Level = Attention

(***************************************************************************)
(* C2. Merge monotonicity: the merged level is Attention if and only if    *)
(* the pattern result or the model's opinion is Attention, and Safe only   *)
(* when both are Safe.                                                     *)
(***************************************************************************)
C2_MergeMonotonic ==
    (Classified /\ analysis.err.isNil)
        => /\ safetyResult.Level = Attention
                <=> (analysis.result.Level = Attention
                        \/ response.SafetyLevel = Attention)
           /\ safetyResult.Level = Safe
                <=> (analysis.result.Level = Safe /\ response.SafetyLevel = Safe)

\* the pattern result is Attention, the model says Safe: the merge keeps Attention
C2_Witness ==
    /\ Classified
    /\ analysis.result.Level = Attention
    /\ response.SafetyLevel = Safe
    /\ safetyResult.Level = Attention

(***************************************************************************)
(* C3. The merge returns the pattern result unchanged (level, reason and   *)
(* layer) unless the pattern result is Safe and the model's opinion is     *)
(* Attention.                                                              *)
(***************************************************************************)
C3_MergeKeepsPatternResult ==
    (Classified /\ analysis.err.isNil
        /\ ~(analysis.result.Level = Safe /\ response.SafetyLevel = Attention))
        => safetyResult = analysis.result

\* the pattern result is Attention and the model agrees: the pattern result,
\* with its own reason and layer, is the final result
C3_Witness ==
    /\ Classified
    /\ analysis.result.Layer = "attention-patterns"
    /\ response.SafetyLevel = Attention
    /\ safetyResult = analysis.result

(***************************************************************************)
(* C4 as claimed: with the pattern result Safe and the model's opinion     *)
(* Attention the merge returns level Attention, reason "external judgment  *)
(* flagged as requiring attention", layer ai-assessment.                   *)
(***************************************************************************)
C4_Claimed ==
    (Classified /\ analysis.err.isNil
        /\ analysis.result.Level = Safe /\ response.SafetyLevel = Attention)
        => safetyResult = [Level |-> Attention,
                           Reason |-> "external judgment flagged as requiring attention",
                           Layer |-> "ai-assessment"]

(***************************************************************************)
(* C4 as amended: with the pattern result Safe and the model's opinion     *)
(* Attention the merge returns a new result of level Attention, reason     *)
(* "AI flagged as requiring attention", layer ai-assessment, in place of   *)
(* the pattern result's reason and layer.                                  *)
(***************************************************************************)
C4_AIUpgrade ==
    (Classified /\ analysis.err.isNil
        /\ analysis.result.Level = Safe /\ response.SafetyLevel = Attention)
        => /\ safetyResult = [Level |-> Attention,
                              Reason |-> "AI flagged as requiring attention",
                              Layer |-> "ai-assessment"]
           /\ safetyResult.Reason # analysis.result.Reason
           /\ safetyResult.Layer # analysis.result.Layer

\* a safe-pattern result was upgraded by the model's opinion
C4_Witness ==
    /\ Classified
    /\ analysis.result.Layer = "safe-patterns"
    /\ response.SafetyLevel = Attention
    /\ safetyResult.Layer = "ai-assessment"


(***************************************************************************)
(* C5. Exit code stability: ExitCode maps Safe to 0 and Attention to 10;   *)
(* the level of the final result that reaches the mapper is Safe or        *)
(* Attention, whichever branch produced it, so the mapped code is 0 or 10. *)
(***************************************************************************)
C5_ExitCodeStability ==
    /\ ExitCode(Safe) = 0
    /\ ExitCode(Attention) = 10
    /\ pc = "analyzed"
        => /\ safetyResult.Level \in {Safe, Attention}
           /\ ExitCode(safetyResult.Level) \in {0, 10}
    /\ VerdictReturned
        => /\ safetyResult.Level \in {Safe, Attention}
           /\ IF ret.isNil
              THEN safetyResult.Level = Safe
              ELSE safetyResult.Level = Attention /\ ret.Code = 10

\* an Attention verdict reached the mapper and was returned as 10
C5_Witness ==
    /\ VerdictReturned
    /\ safetyResult.Level = Attention
    /\ ~ret.isNil
    /\ ret.Code = 10

(***************************************************************************)
(* C6. End-to-end exit signal: in a run with no forced exit code and a     *)
(* successful model call the exit code is 10 if and only if the pattern    *)
(* classifier or the model flagged the command as Attention, and 0 if and  *)
(* only if both judged it Safe; "rm -rf /" with model opinion Safe exits   *)
(* with 10.                                                                *)
(***************************************************************************)
C6_EndToEndExitSignal ==
    (VerdictReturned /\ cfg.MockExitCode = 0)
        => /\ Classified
           /\ ProcessExitCode(ret) = 10
                <=> (analysis.result.Level = Attention
                        \/ response.SafetyLevel = Attention)
           /\ ProcessExitCode(ret) = 0
                <=> (analysis.result.Level = Safe /\ response.SafetyLevel = Safe)
           /\ response.Command = "rm -rf /" => ProcessExitCode(ret) = 10

\* "rm -rf /" came with the model's opinion Safe and the run exited with 10
C6_Witness ==
    /\ VerdictReturned
    /\ cfg.MockExitCode = 0
    /\ response.Command = "rm -rf /"
    /\ response.SafetyLevel = Safe
    /\ ProcessExitCode(ret) = 10

(***************************************************************************)
(* C7. Default fallback: a command that matches no attention rule and no   *)
(* safe rule, the empty and the blank command included, is classified Safe *)
(* by the default layer (Layer "default-safe"), never by the safe-pattern  *)
(* or the attention-pattern layer.                                         *)
(***************************************************************************)
C7_DefaultFallback ==
    /\ (Classified /\ ~MatchesSafeRule(response.Command)
                   /\ ~MatchesAttentionRule(response.Command))
        => /\ analysis.result.Level = Safe
           /\ analysis.result.Layer = "default-safe"
           /\ analysis.result.Layer \notin {"safe-patterns", "attention-patterns"}
    /\ (Classified /\ response.Command \in {"", "   "})
        => analysis.result.Layer = "default-safe"

\* the blank command was classified by the default layer
C7_Witness ==
    /\ Classified
    /\ response.Command = "   "
    /\ ~MatchesAttentionRule(response.Command)
    /\ ~MatchesSafeRule(response.Command)
    /\ analysis.result.Layer = "default-safe"

(***************************************************************************)
(* C8 as claimed: a command that matches no attention rule and whose       *)
(* command name is one of the safe-rule commands is classified Safe by the *)
(* safe-pattern layer (Layer "safe-patterns").                             *)
(***************************************************************************)
C8_Claimed ==
    (Classified /\ ~MatchesAttentionRule(response.Command)
                /\ HasSafeCommandName(response.Command))
        => /\ analysis.result.Level = Safe
           /\ analysis.result.Layer = "safe-patterns"

(***************************************************************************)
(* C9. Totality: AnalyzeCommand returns a nil error and a result of one of *)
(* its three layers for every command, the empty, the blank and the        *)
(* unrecognized ones included; the run never ends with a safety analysis   *)
(* failure and the merge always yields a final result.                     *)
(***************************************************************************)
C9_Totality ==
    /\ Classified
        => /\ analysis.err.isNil
           /\ analysis.result.Level \in {Safe, Attention}
           /\ analysis.result.Layer \in
                {"attention-patterns", "safe-patterns", "default-safe"}
           /\ pc \in {"analyzed", "done"}
           /\ safetyResult.Layer \in
                {"attention-patterns", "safe-patterns", "default-safe", "ai-assessment"}
    /\ pc = "done" => ret.Msg # "Safety analysis failed: %v"

\* the blank command was classified without an error
C9_Witness ==
    /\ Classified
    /\ response.Command = "   "
    /\ analysis.err.isNil
    /\ pc = "analyzed"

(* C11. The test seam: MockAnalyzeCommand(command, code) returns level     *)
(* Safe for code 0, level Attention for code 10 and level Safe for every   *)
(* other code, always with Layer "mock"; two calls with the same code      *)
(* return the same result whatever their commands are.                     *)
(***************************************************************************)
C11_MockSeam ==
    \A g \in DOMAIN calls :
        (calls[g].pc = "returned" /\ calls[g].method = "MockAnalyzeCommand")
            => /\ calls[g].result.Layer = "mock"
               /\ calls[g].code = 0 => calls[g].result.Level = Safe
               /\ calls[g].code = 10 => calls[g].result.Level = Attention
               /\ calls[g].code \notin {0, 10} => calls[g].result.Level = Safe
               /\ \A h \in DOMAIN calls :
                     (/\ calls[h].pc = "returned"
                      /\ calls[h].method = "MockAnalyzeCommand"
                      /\ calls[h].code = calls[g].code)
                         => calls[h].result = calls[g].result

\* two mock calls with an unknown code and different commands, one of them
\* a command the patterns classify as Attention, both returned Safe
C11_Witness ==
    \E g, h \in DOMAIN calls :
        /\ calls[g].pc = "returned" /\ calls[h].pc = "returned"
        /\ calls[g].method = "MockAnalyzeCommand"
        /\ calls[h].method = "MockAnalyzeCommand"
        /\ calls[g].code = 999 /\ calls[h].code = 999
        /\ calls[g].command = "sudo ls" /\ calls[h].command = "ls"
        /\ calls[g].result.Level = Safe /\ calls[g].result.Layer = "mock"
        /\ calls[h].result = calls[g].result

(***************************************************************************)
(* C12. The exit-code contract of the zsh, bash and fish functions on a    *)
(* generate invocation.  Exit code 0: the captured output is placed in the *)
(* input buffer and no warning is shown.  Exit code 10: the warning is     *)
(* shown first and the captured output is placed in the buffer after it.   *)
(* Any other exit code: the buffer is never written, and the diagnostics   *)
(* of the binary are on the terminal.                                      *)
(***************************************************************************)
\* the function has captured the output and the exit code of a generation
Captured ==
    /\ wrapper.shell \in Shells
    /\ IsGeneration(wrapper.args)
    /\ wrapper.pc # "start"

WarningShown ==
    \E i \in DOMAIN wrapper.terminal : wrapper.terminal[i] = WarningLines[2]

\* the terminal holds the error line of cobra, or the panic line of the Go
\* runtime
DiagnosticsShown ==
    \E i \in DOMAIN wrapper.terminal :
        \/ /\ Len(wrapper.terminal[i]) >= Len(ErrorLine(""))
           /\ SubSeq(wrapper.terminal[i], 1, Len(ErrorLine(""))) = ErrorLine("")
        \/ wrapper.terminal[i] = PanicLines[1]

C12_ShellContract ==
    /\ []((Captured /\ wrapper.exit_code = 0) => ~WarningShown)
    /\ []((Captured /\ wrapper.exit_code \notin {0, 10})
            => (~wrapper.placed /\ wrapper.buffer = << >> /\ DiagnosticsShown))
    /\ [][(~wrapper.placed /\ wrapper'.placed)
            => /\ wrapper.exit_code \in {0, 10}
               /\ wrapper'.buffer = wrapper.output
               /\ wrapper.exit_code = 10 => WarningShown]_vars
    /\ (Captured /\ wrapper.exit_code \in {0, 10})
            ~> (wrapper.placed /\ wrapper.buffer = wrapper.output)

\* a fish function showed the warning and then placed the command
C12_Witness ==
    /\ Captured
    /\ wrapper.shell = "fish"
    /\ wrapper.exit_code = 10
    /\ WarningShown
    /\ wrapper.placed
    /\ wrapper.buffer = << "rm -rf /" >>

(***************************************************************************)
(* Vocabulary of the properties on model responses.                        *)
(***************************************************************************)
\* the Gemini API answered the run's request (GenerateContent returned no
\* error)
Answered ==
    /\ provider = "gemini"
    /\ pc \in {"generated", "analyzed", "done", "panicked"}
    /\ ~apiResponse.failed

\* the answer has no candidate, no part, no text, or a text that is not the
\* JSON of a geminiResponse
UnusableAs(resp, geminiResp) ==
    \/ resp.candidates = 0
    \/ resp.parts = 0
    \/ resp.text = ""
    \/ geminiResp.err

Unusable(resp) == UnusableAs(resp, Unmarshal(CleanJSONResponse(resp.text)))

\* the answer is the JSON of a geminiResponse, and its safety member is not
\* one of the two opinions
NoValidOpinionAs(resp, geminiResp) ==
    /\ ~UnusableAs(resp, geminiResp)
    /\ geminiResp.Safety \notin {"SAFE", "ATTENTION"}

NoValidOpinion(resp) ==
    NoValidOpinionAs(resp, Unmarshal(CleanJSONResponse(resp.text)))

\* the answer is the JSON of a geminiResponse, and its command member is
\* missing, null or empty
NoCommandAs(resp, geminiResp) ==
    /\ ~UnusableAs(resp, geminiResp)
    /\ geminiResp.Command = ""

NoCommand(resp) == NoCommandAs(resp, Unmarshal(CleanJSONResponse(resp.text)))

(***************************************************************************)
(* C13, as claimed: a model response with no candidates, with empty text,  *)
(* with unparseable JSON or without a valid safety opinion ends the run    *)
(* with a tool error, and never with a verdict (exit code 0 or 10).        *)
(***************************************************************************)
C13_Claimed ==
    (Answered /\ (Unusable(apiResponse) \/ NoValidOpinion(apiResponse)))
        => /\ ~VerdictReturned
           /\ pc = "done" => (~ret.isNil /\ ret.Code \notin {0, 10} /\ ret.Msg # "")

(***************************************************************************)
(* C14, as claimed: AnalyzeCommand and MockAnalyzeCommand are called only  *)
(* with a non-empty command; a model response whose command member is      *)
(* missing or empty ends the run with a tool error before classification,  *)
(* and never with a verdict.                                               *)
(***************************************************************************)
C14_Claimed ==
    /\ (Classified \/ safetyResult.Layer = "mock") => response.Command # ""
    /\ (Answered /\ NoCommand(apiResponse))
         => /\ ~VerdictReturned
            /\ pc = "done" => (~ret.isNil /\ ret.Code \notin {0, 10})

(***************************************************************************)
(* Vocabulary of the properties on provenance.                             *)
(***************************************************************************)
\* the run has its final safety result (from MockAnalyzeCommand, or from
\* AnalyzeCommand and the merge)
HasSafetyResult == pc = "analyzed" \/ VerdictReturned

\* the run took the forced-exit-code branch
ForcedExitCode == cfg.MockExitCode # 0

(***************************************************************************)
(* C15, as claimed: every result of AnalyzeCommand, of MockAnalyzeCommand  *)
(* and of the merge carries a source tag of the set {attention-pattern,    *)
(* safe-pattern, default-fallback, ai-assessment, mock}.                   *)
(***************************************************************************)
C15_Claimed ==
    /\ Classified
         => analysis.result.Layer \in { "attention-pattern", "safe-pattern",
                                        "default-fallback", "ai-assessment", "mock" }
    /\ HasSafetyResult
         => safetyResult.Layer \in { "attention-pattern", "safe-pattern",
                                     "default-fallback", "ai-assessment", "mock" }

(***************************************************************************)
(* C15, amended: every result of AnalyzeCommand, of MockAnalyzeCommand and *)
(* of the merge carries a source tag of the set {attention-patterns,       *)
(* safe-patterns, default-safe, ai-assessment, mock}, and the tag names    *)
(* the layer that produced the verdict: the attention rules, the safe      *)
(* rules, the default, the model's opinion (a Safe pattern result upgraded *)
(* by it) or the forced exit code.                                         *)
(***************************************************************************)
C15_Provenance ==
    /\ Classified
         => LET layer == analysis.result.Layer
                command == response.Command
                flagged == MatchesAttentionRule(command)
            IN  /\ layer \in { "attention-patterns", "safe-patterns", "default-safe" }
                /\ layer = "attention-patterns" <=> flagged
                /\ layer = "safe-patterns" <=> (~flagged /\ MatchesSafeRule(command))
    /\ HasSafetyResult
         => /\ safetyResult.Layer \in { "attention-patterns", "safe-patterns",
                                        "default-safe", "ai-assessment", "mock" }
            /\ safetyResult.Layer = "mock" <=> ForcedExitCode
            /\ safetyResult.Layer = "ai-assessment"
                 <=> (/\ ~ForcedExitCode
                      /\ analysis.result.Level = Safe
                      /\ response.SafetyLevel = Attention)
            /\ (~ForcedExitCode /\ safetyResult.Layer # "ai-assessment")
                 => safetyResult = analysis.result

\* a run ended with a verdict of the default layer
C15_Witness ==
    /\ VerdictReturned
    /\ Classified
    /\ response.Command = "unknowncmd --flag"
    /\ analysis.result.Layer = "default-safe"
    /\ safetyResult.Layer = "default-safe"

(***************************************************************************)
(* Vocabulary of the properties on the rules.                              *)
(***************************************************************************)
\* the positions after a safe command name that begins at a position of P
\* and ends at a word boundary
SafeNameAfter(s, P) ==
    UNION { Bnd(s, Lit(s, P, w)) :
              w \in { "ls", "cd", "pwd", "echo", "cat", "head", "tail", "grep",
                      "find", "ps", "which", "whereis", "man", "help" } }
    \cup Bnd(s, Alt(s, Spaces1(s, Lit(s, P, "git")),
                    {"status", "log", "diff", "branch", "show"}))
    \cup Bnd(s, Lit(s, Spaces1(s, Lit(s, P, "systemctl")), "status"))

\* the first token of the command, after any leading white space, is a safe
\* command name
FirstTokenIsSafeName(s) ==
    SafeNameAfter(s, { p \in Spaces0(s, {0}) :
                          p = Len(s) \/ At(s, p + 1) \notin SpaceChars }) # {}

(***************************************************************************)
(* C16, as claimed: a command that matches no attention rule gets the      *)
(* safe-pattern layer exactly when its first token is a safe command name: *)
(* a safe name later in the string gives no safe-pattern match, and        *)
(* leading white space, as in "  ls   -la  ", does not prevent it.         *)
(***************************************************************************)
C16_Claimed ==
    (Classified /\ ~MatchesAttentionRule(response.Command))
        => (analysis.result.Layer = "safe-patterns"
                <=> FirstTokenIsSafeName(response.Command))

(***************************************************************************)
(* C17. Statelessness under concurrency: the calls of AnalyzeCommand and   *)
(* MockAnalyzeCommand leave the tables of the shared Analyzer as           *)
(* NewAnalyzer built them, and in every interleaving of the goroutines'    *)
(* steps each call returns the result that the same call returns when it   *)
(* runs alone on a new Analyzer.                                           *)
(***************************************************************************)
C17_Stateless ==
    /\ shared = NewAnalyzer
    /\ \A g \in DOMAIN calls :
          calls[g].pc = "returned"
             => /\ calls[g].method = "AnalyzeCommand"
                    => /\ calls[g].result =
                             AnalyzeCommand(NewAnalyzer, calls[g].command).result
                       /\ calls[g].err = AnalyzeCommand(NewAnalyzer, calls[g].command).err
                /\ calls[g].method = "MockAnalyzeCommand"
                    => calls[g].result =
                          MockAnalyzeCommand(NewAnalyzer, calls[g].command, calls[g].code)

\* one goroutine returned from AnalyzeCommand("ls") with the safe-pattern
\* result while another is between the two loops of its own call
C17_Witness ==
    \E g, h \in DOMAIN calls :
        /\ g # h
        /\ calls[g].pc = "returned"
        /\ calls[g].method = "AnalyzeCommand"
        /\ calls[g].command = "ls"
        /\ calls[g].result.Layer = "safe-patterns"
        /\ calls[h].pc = "safe"
        /\ calls[h].command = "unknowncmd --flag"

(***************************************************************************)
(* Vocabulary of the properties on dangerous commands.                     *)
(***************************************************************************)
\* the pattern result is Attention, given by the attention rules
FlaggedByAttentionRules ==
    /\ analysis.result.Level = Attention
    /\ analysis.result.Layer = "attention-patterns"

\* the positions after the word w, at any place of the command
AfterWord(s, W) == UNION { Word(s, Positions(s), w) : w \in W }

\* rm, then one of the flags -r, -f, -rf, --recursive, --force, then a path
\* that begins with /
RmFlagOnAbsolutePath(s) ==
    Lit(s, Spaces1(s, Alt(s, Spaces1(s, AfterWord(s, {"rm"})),
                          {"-r", "-f", "-rf", "--recursive", "--force"})),
        "/") # {}

\* curl or wget whose output goes to sh or bash: by a pipe, by a command
\* substitution $( ) or by a process substitution <( )
DownloadFedToShell(s) ==
    \/ Bnd(s, Alt(s, Spaces0(s, Lit(s, DotStar(s, AfterWord(s, {"curl", "wget"})), "|")),
                  {"sh", "bash"})) # {}
    \/ Alt(s, Alt(s, DotStar(s, AfterWord(s, {"sh", "bash"})), {"$(", "<("}),
           {"curl", "wget"}) # {}

\* chmod, then any flags, then the mode 777
ChmodSets777(s) ==
    Bnd(s, Lit(s, Spaces1(s, DotStar(s, AfterWord(s, {"chmod"}))), "777")) # {}

(***************************************************************************)
(* C18, as claimed: every rm command with one of the flags -r, -f, -rf,    *)
(* --recursive, --force on an absolute path, not only on /, is classified  *)
(* Attention by the attention rules.                                       *)
(***************************************************************************)
C18_Claimed ==
    (Classified /\ RmFlagOnAbsolutePath(response.Command))
        => FlaggedByAttentionRules

(***************************************************************************)
(* C19, as claimed: every command that feeds the output of curl or wget to *)
(* sh or bash, by a pipe, a command substitution or a process              *)
(* substitution, is classified Attention by the attention rules.           *)
(***************************************************************************)
C19_Claimed ==
    (Classified /\ DownloadFedToShell(response.Command))
        => FlaggedByAttentionRules

(***************************************************************************)
(* C20, as claimed: every chmod command that sets the mode 777, with or    *)
(* without flags between chmod and the mode, is classified Attention by    *)
(* the attention rules.                                                    *)
(***************************************************************************)
C20_Claimed ==
    (Classified /\ ChmodSets777(response.Command))
        => FlaggedByAttentionRules

(***************************************************************************)
(* C21. A SafetyLevel value other than Safe and Attention maps through     *)
(* ExitCode to the generic error code 1 (CodeError), never to 0 or 10, and *)
(* its String form is "unknown".                                           *)
(***************************************************************************)
C21_UnknownLevel ==
    \A level \in LevelCases :
        (levelResults[level].done /\ level \notin {Safe, Attention})
            => /\ levelResults[level].code = CodeError
               /\ levelResults[level].code = 1
               /\ levelResults[level].code \notin {0, 10}
               /\ levelResults[level].string = "unknown"

\* the test case SafetyLevel(999) has run, with a negative value as well
C21_Witness ==
    /\ levelResults[999].done
    /\ levelResults[-1].done
    /\ levelResults[999].code = 1
    /\ levelResults[999].string = "unknown"

\* the positions after an argument of rm that is one of the words of W: rm,
\* white space, any earlier arguments, the word, and then white space, a
\* shell operator or the end of the command
RmArgument(s, W) ==
    LET first == Spaces1(s, AfterWord(s, {"rm"}))
        later == Spaces1(s, DotStar(s, first))
    IN  TokenEnds(s, Alt(s, first \cup later, W))

\* rm with a recursive or force flag and the root path among its arguments,
\* in any order and with any other arguments
RmFlagOnRoot(s) ==
    /\ RmArgument(s, {"-r", "-R", "-f", "-rf", "-fr", "--recursive", "--force"}) # {}
    /\ RmArgument(s, {"/", "/*"}) # {}

(***************************************************************************)
(* C22, as claimed: every command that invokes rm with a recursive or      *)
(* force flag and has the root path / as a target is classified Attention, *)
(* whatever the order of flags and paths and whatever arguments follow the *)
(* path; no such command falls through to the Safe default.                *)
(***************************************************************************)
C22_Claimed ==
    (Classified /\ RmFlagOnRoot(response.Command))
        => /\ analysis.result.Level = Attention
           /\ analysis.result.Layer # "default-safe"

(***************************************************************************)
(* Vocabulary of the properties on the first matching rule.                *)
(***************************************************************************)
\* the category of the first attention rule that matches the command ("" if
\* none matches)
FirstCategory(command) ==
    IF FirstMatch(AttentionPatterns, command) = 0 THEN ""
    ELSE AttentionCategories[FirstMatch(AttentionPatterns, command)]

\* the harness holds two calls whose commands first match attention rules of
\* different categories
DifferentCategories ==
    /\ memo.called /\ last.called
    /\ FirstCategory(memo.command) # ""
    /\ FirstCategory(last.command) # ""
    /\ FirstCategory(memo.command) # FirstCategory(last.command)

(***************************************************************************)
(* C23, as claimed: the reason of an attention result is the category of   *)
(* the first matching rule, so two commands whose first matching attention *)
(* rules belong to different categories get different reasons.             *)
(***************************************************************************)
C23_Claimed ==
    /\ (last.called /\ FirstCategory(last.command) # "")
          => last.result.Reason = FirstCategory(last.command)
    /\ DifferentCategories => memo.result.Reason # last.result.Reason

(***************************************************************************)
(* C23, amended: a command is given the attention result exactly when some *)
(* attention rule matches it, and the result is the same whichever rule    *)
(* matched first: Attention, the reason "Command requires user attention"  *)
(* and the layer "attention-patterns".  The reason names neither the rule   *)
(* nor its category, so two commands whose first matching rules belong to  *)
(* different categories get the same reason.                               *)
(***************************************************************************)
C23_FirstMatch ==
    /\ last.called
          => /\ FirstMatch(AttentionPatterns, last.command) # 0
                    <=> last.result.Layer = "attention-patterns"
             /\ FirstMatch(AttentionPatterns, last.command) # 0
                    => last.result = [Level |-> Attention,
                                      Reason |-> "Command requires user attention",
                                      Layer |-> "attention-patterns"]
    /\ DifferentCategories => memo.result = last.result

\* "sudo ls" (the sudo rule) and "apt update" (a package management rule)
\* were classified, and the two reasons are the same
C23_Witness ==
    /\ DifferentCategories
    /\ memo.command = "sudo ls"
    /\ last.command = "apt update"
    /\ FirstMatch(AttentionPatterns, memo.command) = 1
    /\ FirstMatch(AttentionPatterns, last.command) = 13
    /\ memo.result.Reason = last.result.Reason

(***************************************************************************)
(* Vocabulary of the properties on the order of the two judges.            *)
(***************************************************************************)
\* the more cautious of two levels
MoreCautious(a, b) == IF a = Attention \/ b = Attention THEN Attention ELSE Safe

\* the level the merge gives when the two judges exchange their levels: the
\* pattern result carries the level m of the model, the model reports the
\* level p of the patterns
ExchangedLevel(p, m) == Merge([analysis.result EXCEPT !.Level = m], p).Level

(***************************************************************************)
(* C24. Order independence of the merge: the merged level depends only on  *)
(* the unordered pair of the pattern level and the model level (it is the  *)
(* more cautious of the two), so exchanging which judge reports which      *)
(* level changes neither the final level nor the exit code.                *)
(***************************************************************************)
C24_MergeOrderIndependent ==
    (Classified /\ analysis.err.isNil)
        => LET p == analysis.result.Level
               m == response.SafetyLevel
           IN  /\ safetyResult.Level = MoreCautious(p, m)
               /\ safetyResult.Level = MoreCautious(m, p)
               /\ ExchangedLevel(p, m) = safetyResult.Level
               /\ ExitCode(ExchangedLevel(p, m)) = ExitCode(safetyResult.Level)
               /\ pc = "done"
                     => ProcessExitCode(ret) = ExitCode(ExchangedLevel(p, m))

\* a run ended with 10 on the model's Attention alone: no rule matched the
\* command
C24_Witness ==
    /\ VerdictReturned
    /\ Classified
    /\ analysis.result.Layer = "default-safe"
    /\ response.SafetyLevel = Attention
    /\ ExchangedLevel(analysis.result.Level, response.SafetyLevel) = Attention
    /\ ProcessExitCode(ret) = 10

(***************************************************************************)
(* C25. The forced-exit-code seam of generate is taken exactly when the    *)
(* configured forced exit code is not 0.  Then the final result is the     *)
(* result of MockAnalyzeCommand, with layer "mock": AnalyzeCommand is not   *)
(* called, and neither the command nor the model's opinion changes the     *)
(* result (a forced code other than 10 gives Safe and the exit code 0,     *)
(* even for "rm -rf /" with the model's opinion Attention).  A forced code *)
(* of 0 is no forced code: AnalyzeCommand is called and the merge applied. *)
(***************************************************************************)
C25_ForcedExitCodeSeam ==
    HasSafetyResult
        => /\ safetyResult.Layer = "mock" <=> cfg.MockExitCode # 0
           /\ Classified <=> cfg.MockExitCode = 0
           /\ cfg.MockExitCode = 10
                 => /\ safetyResult = [Level |-> Attention,
                                       Reason |-> "Mock: requires attention",
                                       Layer |-> "mock"]
                    /\ pc = "done" => ProcessExitCode(ret) = 10
           /\ cfg.MockExitCode \notin {0, 10}
                 => /\ safetyResult = [Level |-> Safe,
                                       Reason |-> "Mock: default safe",
                                       Layer |-> "mock"]
                    /\ pc = "done" => ProcessExitCode(ret) = 0
           /\ cfg.MockExitCode = 0
                 => /\ analysis.result = AnalyzeCommand(NewAnalyzer, response.Command).result
                    /\ safetyResult = Merge(analysis.result, response.SafetyLevel)

\* with the forced code 1, "rm -rf /" with the model's opinion Attention was
\* printed and the run exited with 0
C25_Witness ==
    /\ pc = "done"
    /\ cfg.MockExitCode = 1
    /\ provider = "gemini"
    /\ response = [Command |-> "rm -rf /", SafetyLevel |-> Attention]
    /\ safetyResult.Layer = "mock"
    /\ ~Classified
    /\ ProcessExitCode(ret) = 0

(***************************************************************************)
(* C26. The conversion of the model's safety value is fail-closed:         *)
(* parseGenerateResponse gives the opinion Safe only when the safety field *)
(* of the response is exactly "SAFE"; "ATTENTION" and every other value    *)
(* (empty, missing, of another case, an unknown word) give Attention.      *)
(* The answers are told apart by their text as it is written, not by what  *)
(* the decoder makes of it.  The answers of a run are in ASCII; the        *)
(* answers with characters outside ASCII are converted apart from the run. *)
(***************************************************************************)
\* the answers whose safety value is SAFE
SaysSafe ==
    SafeTexts \cup { ResponseText(c, "SAFE") : c \in Commands \cup OddCommands }

\* the answers with another safety value or none
SaysOther ==
    OtherTexts
        \cup { ResponseText(c, s) : c \in Commands \cup OddCommands,
                                    s \in {"ATTENTION"} \cup OddSafeties }

\* parseGenerateResponse has returned a response for the answer
Converted ==
    Answered /\ (pc \in {"generated", "analyzed"} \/ VerdictReturned)

\* parseGenerateResponse makes of each answer with characters outside ASCII
\* a response, with the opinion its text holds
WideConverted ==
    /\ \A t \in WideSafeTexts :
          /\ ParseGenerateResponse(ApiText(t)).err = ""
          /\ ParseGenerateResponse(ApiText(t)).response.SafetyLevel = Safe
    /\ \A t \in WideOtherTexts :
          /\ ParseGenerateResponse(ApiText(t)).err = ""
          /\ ParseGenerateResponse(ApiText(t)).response.SafetyLevel = Attention

C26_FailClosedConversion ==
    /\ WideConverted
    /\ Answered =>
          /\ apiResponse.text \in SaysSafe
                => Converted /\ response.SafetyLevel = Safe
          /\ apiResponse.text \in SaysOther
                => Converted /\ response.SafetyLevel = Attention
          /\ Converted
                => /\ apiResponse.text \in SaysSafe \cup SaysOther
                   /\ response.SafetyLevel \in {Safe, Attention}

\* the model answered without a safety member, and its opinion was taken as
\* Attention
C26_Witness ==
    /\ Answered
    /\ pc = "generated"
    /\ apiResponse.text = "{\"command\": \"ls -la\"}"
    /\ apiResponse.text \in SaysOther
    /\ response = [Command |-> "ls -la", SafetyLevel |-> Attention]

(***************************************************************************)
(* Vocabulary of the properties on the failed model call.                  *)
(***************************************************************************)
\* the model call of the run returned an error (the API call failed, or the
\* answer could not be used), and the run is over
ModelCallFailed ==
    /\ provider = "gemini"
    /\ pc = "done"
    /\ apiResponse.failed \/ Unusable(apiResponse)

\* the lines of stdout that are not marked as debug lines
UnmarkedLines ==
    { i \in DOMAIN stdout : ~HasPrefix(stdout[i], "DEBUG:") }

(***************************************************************************)
(* C27. When the model call returns an error, the run ends with exit code  *)
(* 1 without a call of AnalyzeCommand or MockAnalyzeCommand and without a  *)
(* generated command: the statement that writes the command to stdout is   *)
(* not reached, and stdout holds what the debug statements of              *)
(* createAIClient and parseGenerateResponse had written before the error,  *)
(* which is nothing without the debug flag.                                *)
(***************************************************************************)
C27_ModelError ==
    ModelCallFailed
        => /\ ret = NewError(CodeError, "AI command generation failed: %v")
           /\ ProcessExitCode(ret) = 1
           /\ ~Classified
           /\ safetyResult = ZeroResult
           /\ response = NoResponse
           /\ stdout = ClientDebugLines(cfg)
                           \o (IF apiResponse.failed THEN << >>
                               ELSE ParseDebugLines(cfg, apiResponse))
           /\ ~cfg.Debug => stdout = << >>

\* with the debug flag, the model answered with the bare text "ls -la": the
\* run ended with exit code 1 and the text is on stdout
C27_Witness ==
    /\ ModelCallFailed
    /\ cfg.Debug
    /\ apiResponse.text = "ls -la"
    /\ ProcessExitCode(ret) = 1
    /\ \E i \in UnmarkedLines : stdout[i] = "ls -la"

(***************************************************************************)
(* Vocabulary of the property on the failure paths.                        *)
(***************************************************************************)
\* the generate run is over and there was neither an API key nor a mock
\* response
MissingAPIKey ==
    pc = "done" /\ cfg.GeminiAPIKey = "" /\ cfg.MockResponse = ""

\* the generate run is over, the configuration was usable and no client
\* was made
ClientCreationFailed ==
    pc = "done" /\ provider = "" /\ ~MissingAPIKey

\* the generate run is over and AnalyzeCommand had returned an error
AnalysisFailed ==
    pc = "done" /\ analysis.called /\ ~analysis.err.isNil

\* the init run is over and no script was printed
UnsupportedShell ==
    pc = "initialized" /\ stdout = << >>

\* the command of the run has a verdict: AnalyzeCommand was called and its
\* result merged, or MockAnalyzeCommand gave the result
HasVerdict ==
    \/ Classified /\ analysis.err.isNil /\ safetyResult.Layer # ""
    \/ ForcedExitCode /\ safetyResult.Layer = "mock"

\* cobra rejected the flags or the arguments of the run
Rejected == pc = "rejected"

\* loadConfig returned an error
ConfigNotLoaded == pc = "unconfigured"

\* the init run is over and the script was printed
ScriptPrinted == pc = "initialized" /\ stdout # << >>

\* the help was printed
HelpShown == pc = "helped"

\* the generate run ended in a panic of parseGenerateResponse
Panicked == pc = "panicked"

\* the run is over
Over ==
    pc \in {"done", "initialized", "rejected", "unconfigured", "helped", "panicked"}

\* the exit status of the process of a run that is over: that of main for
\* the error Execute returned, and 2, the status the Go runtime ends a
\* panicking process with
ExitStatus == IF Panicked THEN 2 ELSE ProcessExitCode(ret)

\* the run is over on one of the failure paths the claim lists, other than
\* the failed model call
FailedOtherwise ==
    \/ MissingAPIKey
    \/ ClientCreationFailed
    \/ AnalysisFailed
    \/ UnsupportedShell

\* the exit codes of the listed failure paths, given whether the model call
\* failed
ListedCodesAs(modelCallFailed) ==
    /\ FailedOtherwise \/ modelCallFailed => ExitStatus \in 1 .. 9
    /\ MissingAPIKey => ExitStatus = CodeConfig
    /\ ClientCreationFailed \/ modelCallFailed \/ AnalysisFailed \/ UnsupportedShell
          => ExitStatus = CodeError

    /\ Over /\ ExitStatus \in {CodeSuccess, CodeDangerous}
          => /\ HasVerdict
             /\ ExitStatus = ExitCode(safetyResult.Level)

\* the exit codes of all the runs, given whether the model call failed
FailureCodesAs(modelCallFailed) ==
    /\ ListedCodesAs(modelCallFailed)
    /\ Rejected \/ ConfigNotLoaded => ExitStatus = CodeError
    /\ Over /\ ExitStatus = CodeDangerous
          => /\ pc = "done"
             /\ ~(FailedOtherwise \/ modelCallFailed)
             /\ HasVerdict
             /\ safetyResult.Level = Attention
    /\ Over /\ ExitStatus = CodeSuccess
          => \/ /\ pc = "done"
                /\ ~(FailedOtherwise \/ modelCallFailed)
                /\ HasVerdict
                /\ safetyResult.Level = Safe
             \/ ScriptPrinted
             \/ HelpShown
    /\ Over => ExitStatus \in {CodeSuccess, CodeDangerous} \cup (1 .. 9)
    /\ (ScriptPrinted \/ HelpShown) => ExitStatus = CodeSuccess
    /\ Panicked
          => /\ ExitStatus = 2
             /\ NilContent(apiResponse)
             /\ ret = Nil
             /\ ~HasVerdict
             /\ response = NoResponse
    /\ Over /\ ExitStatus = CodeConfig => MissingAPIKey \/ Panicked
    /\ pc = "done" /\ ~(FailedOtherwise \/ modelCallFailed)
          => /\ HasVerdict
             /\ ExitStatus = ExitCode(safetyResult.Level)

(* C29, as claimed: in every successful generate run, whatever the         *)
(* configuration (the debug flag included), the only text written to       *)
(* stdout is the generated command followed by a newline: stdout is the    *)
(* lines of the command.                                                   *)
(***************************************************************************)
C29_Claimed ==
    VerdictReturned => stdout = Lines(response.Command)

(***************************************************************************)
(* C30, as claimed: on a tool error of a generate invocation (an exit code *)
(* other than 0 and 10) each of the zsh, bash and fish functions returns   *)
(* to the calling shell the exit code the hermes process produced, so that *)
(* the configuration error (2) and the generic error (1) stay apart.       *)
(***************************************************************************)
C30_Claimed ==
    (Captured /\ wrapper.pc = "done" /\ wrapper.exit_code \notin {0, 10})
        => wrapper.status = wrapper.exit_code

=============================================================================
